---- MODULE Spec2Model ----
(***************************************************************************)
(* Model of the component-directories extension: the case engine           *)
(* (utils/caseUtils.ts), token substitution and template generation        *)
(* (utils/generationUtils.ts), the configuration resolver                   *)
(* (utils/configurationUtils.ts) and the commands (commands/*.ts).         *)
(*                                                                         *)
(* Strings are sequences of one-character strings, so that matching,       *)
(* splitting and replacing are computed character by character as the      *)
(* JavaScript string methods do.  The JavaScript value null (and the empty *)
(* string, which is equally falsy) of a string-valued expression is the    *)
(* empty sequence.                                                         *)
(***************************************************************************)
EXTENDS Integers, Sequences, FiniteSets, TLC

VARIABLES
  \* ---- generation (generateFromTemplates / generateSingleFile) ----
  componentName,    \* argument componentName
  templateSources,  \* argument templateSources (sequence of source names)
  files,            \* the file system: path |-> content, for each existing file
  dirs,             \* the directories created by fs.mkdir
  run,              \* 0 before the first call, then the number of the running call
  pc,               \* per render of the batch: the I/O operation it is suspended on
  target,           \* per render: the locals processedTarget, componentDir, targetPath
  results,          \* per render: the value generateSingleFile resolved to
  outcome,          \* "none", "pending", "resolved" or "rejected" for the running call
  genResult,        \* the GenerationResult of a resolved call
  filesAtCall,      \* history: the files when the running call was issued
  dirsAtCall,       \* history: the directories when the running call was issued
  touched,          \* history: per render, the I/O operations it completed
  writeLog,         \* history: per path, how often the batch wrote it
  overwrote,        \* history: paths written while a file existed there
  firstRun,         \* history: result and file system of the first call
  \* ---- token substitution as a function ----
  tokInput,         \* argument input of processTokens
  tokName,          \* argument componentName of processTokens
  tokOutput,        \* its return value
  tokDone,          \* whether it was applied
  \* ---- configuration resolver (findConfig) ----
  startPath,        \* argument startPath (sequence of path segments, <<>> is the root)
  configFiles,      \* per directory: what lies at <dir>/.component-templates.json
  templateFiles,    \* the template files that exist: [dir, source] for <dir>/<source>
  currentPath,      \* local variable currentPath
  cfgPc,            \* "loop" while the while-loop runs, "done" after return
  cfgResult,        \* the returned value
  probes,           \* history: the directories whose configuration file was read
  messages,         \* history: the error messages shown
  channelShown,     \* history: whether the output channel with details was shown
  validationResult, \* local variable validationResult of the last validated file
  \* ---- the case engine as functions ----
  caseName,         \* the name the functions of caseUtils are applied to
  casePc,           \* "start", then "inspected" once the functions were applied
  caseDetected,     \* detectCase(caseName)
  caseValid,        \* isValidCase(caseName)
  caseNameError,    \* whether validateComponentName(caseName) returned a message
  caseTransforms,   \* per case c: transform(caseName, c)
  caseVariants,     \* getAllCaseVariants(caseName)
  caseChain,        \* successive conversions: transform applied to the last output
  \* ---- the commands ----
  cmd,              \* the command that was invoked
  cmdUriGiven,      \* whether the command got a uri with an fsPath
  cmdBase,          \* path.basename(uri.fsPath)
  cmdPc,            \* the await the command is suspended on, "done" after return
  cmdConfig,        \* local variable configResult
  cmdGroup,         \* createAltComponent: the picked group, 0 when dismissed
  cmdAnswer,        \* the value the input box returned
  cmdLog,           \* history: prompts, file operations and notifications
  cmdEnd,           \* history: how the command came to return
  \* ---- forkComponentCommand and renameCommand on a tree of files ----
  treeCmd,          \* the command that was invoked
  sourceName,       \* path.basename(uri.fsPath): sourceName of fork, currentName of rename
  targetName,       \* the value the input box returned: targetName of fork, newName of rename
  tree,             \* the file system: path |-> node, for each directory and file
  treeAtStart,      \* history: the file system when the command was invoked
  treePc,           \* the await the command is suspended on, "done" after return
  frames,           \* the running copyDirectory calls (or the one loop of rename): source, target, entries left
  fsLog,            \* history: the file and editor operations issued, in order
  shown,            \* history: the notifications shown, in order
  writes,           \* history: per completed writeFile, the content read and the content written
  wsCount,          \* updateImportReferences: the number of files findFiles returned
  scanned,          \* updateImportReferences: the files the loop has taken so far
  workspaceEdit,    \* updateImportReferences: the edits collected in workspaceEdit
  applied           \* history: the argument of each applyEdit call

genVars == <<componentName, templateSources, files, dirs, run, pc, target, results, outcome,
             genResult, filesAtCall, dirsAtCall, touched, writeLog, overwrote, firstRun>>

tokVars == <<tokInput, tokName, tokOutput, tokDone>>

cfgVars == <<startPath, configFiles, templateFiles, currentPath, cfgPc, cfgResult, probes, messages,
             channelShown, validationResult>>

caseVars == <<caseName, casePc, caseDetected, caseValid, caseNameError, caseTransforms,
              caseVariants, caseChain>>

cmdVars == <<cmd, cmdUriGiven, cmdBase, cmdPc, cmdConfig, cmdGroup, cmdAnswer, cmdLog, cmdEnd>>

treeVars == <<treeCmd, sourceName, targetName, tree, treeAtStart, treePc, frames, fsLog, shown,
              writes, wsCount, scanned, workspaceEdit, applied>>

vars == <<genVars, tokVars, cfgVars, caseVars, cmdVars, treeVars>>

----------------------------------------------------------------------------
(* Characters *)

Lowers == <<"a","b","c","d","e","f","g","h","i","j","k","l","m","n","o","p","q","r","s","t","u","v","w","x","y","z">>

Uppers == <<"A","B","C","D","E","F","G","H","I","J","K","L","M","N","O","P","Q","R","S","T","U","V","W","X","Y","Z">>

Digits == <<"0","1","2","3","4","5","6","7","8","9">>

Range(s) == {s[i] : i \in DOMAIN s}

LowerSet == Range(Lowers)

UpperSet == Range(Uppers)

DigitSet == Range(Digits)

IsLower(c) == c \in LowerSet

IsUpper(c) == c \in UpperSet

IsDigit(c) == c \in DigitSet

IndexIn(s, c) == CHOOSE i \in DOMAIN s : s[i] = c

\* String.prototype.toLowerCase / toUpperCase on one character
ToLowerCh(c) == IF IsUpper(c) THEN Lowers[IndexIn(Uppers, c)] ELSE c

ToUpperCh(c) == IF IsLower(c) THEN Uppers[IndexIn(Lowers, c)] ELSE c

ToLowerStr(s) == [i \in DOMAIN s |-> ToLowerCh(s[i])]

\* word.charAt(0).toUpperCase() + word.slice(1)
Capitalize(w) == IF w = <<>> THEN <<>> ELSE <<ToUpperCh(w[1])>> \o Tail(w)

\* the JavaScript null of a string-valued expression
Null == <<>>

----------------------------------------------------------------------------
(* utils/caseUtils.ts *)

\* /^[A-Z][a-zA-Z0-9]*$/
MatchesPascal(s) ==
  /\ Len(s) >= 1
  /\ IsUpper(s[1])
  /\ \A i \in 2..Len(s) : IsLower(s[i]) \/ IsUpper(s[i]) \/ IsDigit(s[i])

\* /^[a-z][a-zA-Z0-9]*$/
MatchesCamel(s) ==
  /\ Len(s) >= 1
  /\ IsLower(s[1])
  /\ \A i \in 2..Len(s) : IsLower(s[i]) \/ IsUpper(s[i]) \/ IsDigit(s[i])

\* /^[a-z][a-z0-9]*(SEP[a-z0-9]+)*$/ : a lowercase letter first, then lowercase
\* letters, digits and separators, no separator last and no two in a row
MatchesSeparated(s, sep) ==
  /\ Len(s) >= 1
  /\ IsLower(s[1])
  /\ \A i \in 2..Len(s) : IsLower(s[i]) \/ IsDigit(s[i]) \/ s[i] = sep
  /\ s[Len(s)] # sep
  /\ \A i \in 2..Len(s) : s[i] = sep => s[i-1] # sep

MatchesKebab(s) == MatchesSeparated(s, "-")

MatchesSnake(s) == MatchesSeparated(s, "_")

\* mutant of casePatterns: the camel pattern is tried before the kebab pattern
casePatternsCamelFirst == <<"pascal", "camel", "kebab", "snake">>

\* the keys of casePatterns in the order Object.entries yields them
casePatterns == <<"pascal", "kebab", "camel", "snake">>

Matches(caseType, s) ==
  CASE caseType = "pascal" -> MatchesPascal(s)
    [] caseType = "kebab" -> MatchesKebab(s)
    [] caseType = "camel" -> MatchesCamel(s)
    [] caseType = "snake" -> MatchesSnake(s)

\* the first pattern, in the order of casePatterns, that matches; "none" is null
detectCase(input) ==
  IF \E k \in DOMAIN casePatterns : Matches(casePatterns[k], input)
  THEN casePatterns[CHOOSE k \in DOMAIN casePatterns :
                      /\ Matches(casePatterns[k], input)
                      /\ \A j \in 1..(k-1) : ~Matches(casePatterns[j], input)]
  ELSE "none"

\* input.split(sep) for a one-character separator
RECURSIVE SplitOn(_, _)
SplitOn(s, sep) ==
  IF \E i \in DOMAIN s : s[i] = sep
  THEN LET i == CHOOSE k \in DOMAIN s : s[k] = sep /\ \A j \in 1..(k-1) : s[j] # sep
       IN <<SubSeq(s, 1, i-1)>> \o SplitOn(SubSeq(s, i+1, Len(s)), sep)
  ELSE <<s>>

\* whether /(?<=[a-z])(?=[A-Z])|(?<=[A-Z])(?=[A-Z][a-z])/ matches between
\* s[i] and s[i+1]
IsBoundary(s, i) ==
  /\ i >= 1
  /\ i < Len(s)
  /\ \/ IsLower(s[i]) /\ IsUpper(s[i+1])
     \/ IsUpper(s[i]) /\ IsUpper(s[i+1]) /\ i + 2 <= Len(s) /\ IsLower(s[i+2])

\* input.split(<the boundary pattern>)
RECURSIVE SplitBoundaries(_)
SplitBoundaries(s) ==
  IF \E i \in DOMAIN s : IsBoundary(s, i)
  THEN LET i == CHOOSE k \in DOMAIN s : IsBoundary(s, k) /\ \A j \in 1..(k-1) : ~IsBoundary(s, j)
       IN <<SubSeq(s, 1, i)>> \o SplitBoundaries(SubSeq(s, i+1, Len(s)))
  ELSE <<s>>

tokenize(input, caseType) ==
  LET parts == CASE caseType \in {"pascal", "camel"} -> SplitBoundaries(input)
                 [] caseType = "kebab" -> SplitOn(input, "-")
                 [] caseType = "snake" -> SplitOn(input, "_")
  IN [i \in DOMAIN parts |-> ToLowerStr(parts[i])]

\* words.join(sep), sep a string
RECURSIVE JoinWords(_, _)
JoinWords(words, sep) ==
  IF words = <<>> THEN <<>>
  ELSE IF Len(words) = 1 THEN words[1]
  ELSE words[1] \o sep \o JoinWords(Tail(words), sep)

\* mutant of transformTokens: snake output is joined with hyphens
transformTokensSnakeHyphen(words, targetCase) ==
  CASE targetCase = "pascal" ->
         JoinWords([i \in DOMAIN words |-> Capitalize(words[i])], <<>>)
    [] targetCase = "camel" ->
         words[1] \o JoinWords([i \in DOMAIN Tail(words) |-> Capitalize(Tail(words)[i])], <<>>)
    [] targetCase = "kebab" -> JoinWords(words, <<"-">>)
    [] targetCase = "snake" -> JoinWords(words, <<"-">>)

transformTokens(words, targetCase) ==
  CASE targetCase = "pascal" ->
         JoinWords([i \in DOMAIN words |-> Capitalize(words[i])], <<>>)
    [] targetCase = "camel" ->
         words[1] \o JoinWords([i \in DOMAIN Tail(words) |-> Capitalize(Tail(words)[i])], <<>>)
    [] targetCase = "kebab" -> JoinWords(words, <<"-">>)
    [] targetCase = "snake" -> JoinWords(words, <<"_">>)

\* mutant of transform: a name of no detected case is returned as it is
transformGuess(input, targetCase) ==
  LET sourceCase == detectCase(input)
  IN IF sourceCase = "none" THEN input
     ELSE transformTokens(tokenize(input, sourceCase), targetCase)

transform(input, targetCase) ==
  LET sourceCase == detectCase(input)
  IN IF sourceCase = "none" THEN Null
     ELSE transformTokens(tokenize(input, sourceCase), targetCase)

isValidCase(input) == detectCase(input) # "none"

CaseTypes == {"pascal", "camel", "kebab", "snake"}

\* getAllCaseVariants: the four entries are null when no case is detected, else
\* the tokens of the input rejoined in each case
getAllCaseVariants(input) ==
  LET sourceCase == detectCase(input)
  IN IF sourceCase = "none" THEN [c \in CaseTypes |-> Null]
     ELSE LET tokens == tokenize(input, sourceCase)
          IN [c \in CaseTypes |-> transformTokens(tokens, c)]

\* configurationUtils.ts: TRUE when validateComponentName returns an error message
validateComponentName(name) == ~isValidCase(name)

----------------------------------------------------------------------------
(* utils/generationUtils.ts: token substitution *)

TOKEN_TRANSFORMS ==
  << [token |-> <<"{","{","P","a","s","c","a","l","C","a","s","e","C","o","m","p","o","n","e","n","t","N","a","m","e","}","}">>, targetCase |-> "pascal"],
     [token |-> <<"{","{","s","n","a","k","e","_","c","a","s","e","_","c","o","m","p","o","n","e","n","t","_","n","a","m","e","}","}">>, targetCase |-> "snake"],
     [token |-> <<"{","{","k","e","b","a","b","-","c","a","s","e","-","c","o","m","p","o","n","e","n","t","-","n","a","m","e","}","}">>, targetCase |-> "kebab"],
     [token |-> <<"{","{","c","a","m","e","l","C","a","s","e","C","o","m","p","o","n","e","n","t","N","a","m","e","}","}">>, targetCase |-> "camel"] >>

\* whether pat occurs in s at position i
OccursAt(s, pat, i) ==
  /\ i >= 1
  /\ i + Len(pat) - 1 <= Len(s)
  /\ \A k \in 1..Len(pat) : s[i + k - 1] = pat[k]

\* String.prototype.includes
Includes(s, pat) == \E i \in 1..(Len(s) + 1) : OccursAt(s, pat, i)

\* String.prototype.replaceAll with a string pattern: the occurrences are found
\* from left to right, without overlap, and the replacement is not scanned again
RECURSIVE ReplaceAll(_, _, _)
ReplaceAll(s, pat, rep) ==
  IF Len(s) < Len(pat) \/ pat = <<>> THEN s
  ELSE IF OccursAt(s, pat, 1)
       THEN rep \o ReplaceAll(SubSeq(s, Len(pat) + 1, Len(s)), pat, rep)
       ELSE <<s[1]>> \o ReplaceAll(Tail(s), pat, rep)

\* the body of the for-loop of processTokens for one entry of TOKEN_TRANSFORMS
ProcessOneToken(result, entry, name) ==
  IF Includes(result, entry.token)
  THEN LET transformed == transform(name, entry.targetCase)
       IN IF transformed # Null
          THEN ReplaceAll(result, entry.token, transformed)
          ELSE result
  ELSE result

\* the for-loop of processTokens from entry k on
RECURSIVE ProcessFrom(_, _, _)
ProcessFrom(result, k, name) ==
  IF k > Len(TOKEN_TRANSFORMS) THEN result
  ELSE ProcessFrom(ProcessOneToken(result, TOKEN_TRANSFORMS[k], name), k + 1, name)

processTokens(input, name) == ProcessFrom(input, 1, name)

----------------------------------------------------------------------------
(* utils/generationUtils.ts: generateSingleFile and generateFromTemplates *)

\* path.join(a, b) for normalised a and a relative b without "." or ".." segments
PathJoin(a, b) == IF b = <<>> THEN a ELSE a \o <<"/">> \o b

\* argument targetDirectory: the directory the command was invoked on
TargetDirectory == <<"/","w">>

\* argument templateItems: the registry config.templates; the first two entries
\* share a target, as component.tsx.template and component-simple.tsx.template
\* do in the README's advanced example
TemplateItems ==
  << [source |-> "a.tmpl", target |-> <<"{","{","P","a","s","c","a","l","C","a","s","e","C","o","m","p","o","n","e","n","t","N","a","m","e","}","}">> \o <<".","t","x","t">>],
     [source |-> "b.tmpl", target |-> <<"{","{","P","a","s","c","a","l","C","a","s","e","C","o","m","p","o","n","e","n","t","N","a","m","e","}","}">> \o <<".","t","x","t">>],
     [source |-> "c.tmpl", target |-> <<"i","n","d","e","x",".","t","s">>] >>

\* the text of the template files under templatesPath
TemplateContent(source) ==
  CASE source = "a.tmpl" -> <<"H","e","l","l","o"," ">> \o <<"{","{","c","a","m","e","l","C","a","s","e","C","o","m","p","o","n","e","n","t","N","a","m","e","}","}">>
    [] source = "b.tmpl" -> <<"{","{","c","a","m","e","l","C","a","s","e","C","o","m","p","o","n","e","n","t","N","a","m","e","}","}">> \o <<"!">>
    [] source = "c.tmpl" -> <<"x">>

\* what a file that was there before the call contains
OldContent == <<"o","l","d">>

HasTemplateItem(source) == \E k \in DOMAIN TemplateItems : TemplateItems[k].source = source

\* templates.find((t) => t.source === templateSource); throws when there is none
findTemplateItem(source) ==
  TemplateItems[CHOOSE k \in DOMAIN TemplateItems :
                  /\ TemplateItems[k].source = source
                  /\ \A j \in 1..(k-1) : TemplateItems[j].source # source]

Renders == DOMAIN templateSources

Template(i) == findTemplateItem(templateSources[i])

\* mutant of SourceCaseDetected: the case of the name is not checked
SourceCaseAssumed(name) == TRUE

\* const sourceCase = detectCase(componentName); if (!sourceCase) throw
SourceCaseDetected(name) == detectCase(name) # "none"

\* the locals processedTarget, componentDir and targetPath of generateSingleFile
ComputeTarget(i) ==
  LET processedTarget == processTokens(Template(i).target, componentName)
      componentDir == PathJoin(TargetDirectory, componentName)
  IN [processedTarget |-> processedTarget,
      componentDir |-> componentDir,
      targetPath |-> PathJoin(componentDir, processedTarget)]

NoTarget == [processedTarget |-> <<>>, componentDir |-> <<>>, targetPath |-> <<>>]

ProcessedTarget(i) == target[i].processedTarget

ComponentDir(i) == target[i].componentDir

TargetPath(i) == target[i].targetPath

\* mutant of Exists: only directories count as existing
ExistsDirOnly(path) == path \in dirs

\* fs.access(path) resolves
Exists(path) == path \in DOMAIN files \/ path \in dirs

NoResult == [success |-> FALSE, path |-> <<>>, exists |-> FALSE]

NoGenResult == [success |-> FALSE, existingFiles |-> <<>>, addedFiles |-> <<>>]

EmptyFiles == [p \in {} |-> <<>>]

NoOps == [i \in Renders |-> {}]

\* generateFromTemplates is called for the r-th time: findTemplateItem for every
\* source, then the synchronous part of every generateSingleFile, up to fs.access
Call(r) ==
  /\ run = r - 1
  /\ r = 1 \/ outcome \in {"resolved", "rejected"}
  /\ run' = r
  /\ firstRun' = IF r = 1 THEN firstRun
                 ELSE [outcome |-> outcome, result |-> genResult, files |-> files,
                       results |-> results, pc |-> pc]
  /\ filesAtCall' = files
  /\ dirsAtCall' = dirs
  /\ touched' = NoOps
  /\ writeLog' = [p \in {} |-> 0]
  /\ overwrote' = {}
  /\ results' = [i \in Renders |-> NoResult]
  /\ genResult' = NoGenResult
  /\ IF \E i \in Renders : ~HasTemplateItem(templateSources[i])
     THEN /\ outcome' = "rejected"
          /\ pc' = [i \in Renders |-> "notcalled"]
          /\ target' = [i \in Renders |-> NoTarget]
     ELSE /\ outcome' = "pending"
          /\ IF SourceCaseDetected(componentName)
             THEN /\ pc' = [i \in Renders |-> "access"]
                  /\ target' = [i \in Renders |-> ComputeTarget(i)]
             ELSE /\ pc' = [i \in Renders |-> "thrown"]
                  /\ target' = [i \in Renders |-> NoTarget]
  /\ UNCHANGED <<componentName, templateSources, files, dirs>>

Finish(i, result) ==
  /\ pc' = [pc EXCEPT ![i] = "done"]
  /\ results' = [results EXCEPT ![i] = result]

\* mutant of Access: the early return for an existing file is missing
AccessFallsThrough(i) ==
  /\ outcome = "pending"
  /\ pc[i] = "access"
  /\ pc' = [pc EXCEPT ![i] = "read"]
  /\ UNCHANGED <<componentName, templateSources, target, files, dirs, run, outcome, genResult,
                 results, touched, filesAtCall, dirsAtCall, writeLog, overwrote, firstRun>>

\* await fs.access(targetPath) settles
Access(i) ==
  /\ outcome = "pending"
  /\ pc[i] = "access"
  /\ IF Exists(TargetPath(i))
     THEN /\ Finish(i, [success |-> FALSE, path |-> ProcessedTarget(i), exists |-> TRUE])
          /\ touched' = [touched EXCEPT ![i] = @ \cup {"found"}]
     ELSE /\ pc' = [pc EXCEPT ![i] = "read"]
          /\ UNCHANGED <<results, touched>>
  /\ UNCHANGED <<componentName, templateSources, target, files, dirs, run, outcome, genResult,
                 filesAtCall, dirsAtCall, writeLog, overwrote, firstRun>>

\* mutant of Failed: the catch block rethrows
FailedThrows(i) ==
  /\ pc' = [pc EXCEPT ![i] = "thrown"]
  /\ touched' = [touched EXCEPT ![i] = @ \cup {"failed"}]
  /\ UNCHANGED results

\* the catch block of generateSingleFile
Failed(i) ==
  /\ Finish(i, [success |-> FALSE, path |-> ProcessedTarget(i), exists |-> FALSE])
  /\ touched' = [touched EXCEPT ![i] = @ \cup {"failed"}]

\* await fs.readFile(<template>) settles
ReadTemplate(i, ok) ==
  /\ outcome = "pending"
  /\ pc[i] = "read"
  /\ IF ok
     THEN /\ pc' = [pc EXCEPT ![i] = "mkdir"]
          /\ touched' = [touched EXCEPT ![i] = @ \cup {"read"}]
          /\ UNCHANGED results
     ELSE Failed(i)
  /\ UNCHANGED <<componentName, templateSources, target, files, dirs, run, outcome, genResult,
                 filesAtCall, dirsAtCall, writeLog, overwrote, firstRun>>

\* await fs.mkdir(componentDir, { recursive: true }) settles
Mkdir(i, ok) ==
  /\ outcome = "pending"
  /\ pc[i] = "mkdir"
  /\ IF ok
     THEN /\ pc' = [pc EXCEPT ![i] = "write"]
          /\ dirs' = dirs \cup {ComponentDir(i)}
          /\ touched' = [touched EXCEPT ![i] = @ \cup {"mkdir"}]
          /\ UNCHANGED results
     ELSE /\ Failed(i)
          /\ UNCHANGED dirs
  /\ UNCHANGED <<componentName, templateSources, target, files, run, outcome, genResult,
                 filesAtCall, dirsAtCall, writeLog, overwrote, firstRun>>

\* mutant of WriteFile: the content goes to a temporary file that is never renamed
WriteFileElsewhere(fs, path, content) ==
  [p \in DOMAIN fs \cup {path \o <<"~">>} |-> IF p = path \o <<"~">> THEN content ELSE fs[p]]

\* what fs.writeFile(path, content) leaves in the file system
WriteFile(fs, path, content) ==
  [p \in DOMAIN fs \cup {path} |-> IF p = path THEN content ELSE fs[p]]

\* await fs.writeFile(targetPath, processedContent) settles
Write(i, ok) ==
  /\ outcome = "pending"
  /\ pc[i] = "write"
  /\ IF ok
     THEN LET path == TargetPath(i)
              content == processTokens(TemplateContent(Template(i).source), componentName)
          IN /\ files' = WriteFile(files, path, content)
             /\ touched' = [touched EXCEPT ![i] = @ \cup {"write"}]
             /\ writeLog' = [p \in DOMAIN writeLog \cup {path} |->
                               IF p = path
                               THEN (IF p \in DOMAIN writeLog THEN writeLog[p] ELSE 0) + 1
                               ELSE writeLog[p]]
             /\ overwrote' = IF path \in DOMAIN files THEN overwrote \cup {path}
                             ELSE overwrote
             /\ Finish(i, [success |-> TRUE, path |-> ProcessedTarget(i), exists |-> FALSE])
     ELSE /\ Failed(i)
          /\ UNCHANGED <<files, writeLog, overwrote>>
  /\ UNCHANGED <<componentName, templateSources, target, dirs, run, outcome, genResult,
                 filesAtCall, dirsAtCall, firstRun>>

\* results.filter(keep).map((r) => r.path)
RECURSIVE PathsWhere(_, _)
PathsWhere(rs, field) ==
  IF rs = <<>> THEN <<>>
  ELSE (IF rs[1][field] THEN <<rs[1].path>> ELSE <<>>) \o PathsWhere(Tail(rs), field)

\* mutant of BuildResult: success requires every render to have written
BuildResultAllWritten(rs) ==
  [success |-> \A i \in DOMAIN rs : rs[i].success,
   existingFiles |-> PathsWhere(rs, "exists"),
   addedFiles |-> PathsWhere(rs, "success")]

\* the GenerationResult built from the results of Promise.all
BuildResult(rs) ==
  [success |-> \E i \in DOMAIN rs : rs[i].success,
   existingFiles |-> PathsWhere(rs, "exists"),
   addedFiles |-> PathsWhere(rs, "success")]

\* Promise.all settles: it rejects when a render threw, and resolves once every
\* render has resolved
Settle ==
  /\ outcome = "pending"
  /\ \A i \in Renders : pc[i] \in {"done", "thrown"}
  /\ IF \E i \in Renders : pc[i] = "thrown"
     THEN /\ outcome' = "rejected"
          /\ UNCHANGED genResult
     ELSE /\ outcome' = "resolved"
          /\ genResult' = BuildResult(results)
  /\ UNCHANGED <<componentName, templateSources, target, files, dirs, run, pc, results,
                 filesAtCall, dirsAtCall, touched, writeLog, overwrote, firstRun>>

----------------------------------------------------------------------------
(* utils/configurationUtils.ts: validation of a parsed configuration.

   A JSON value is a record with a field type; a directory is the sequence of
   its path segments, <<>> being the file system root. *)

JUndef == [type |-> "undefined"]

JNull == [type |-> "null"]

JNum == [type |-> "number"]

JStr(v) == [type |-> "string", value |-> v]

JArr(items) == [type |-> "array", items |-> items]

JObj(fields) == [type |-> "object", fields |-> fields]

\* !v : undefined, null and the empty string are falsy
Falsy(v) == v.type \in {"undefined", "null"} \/ (v.type = "string" /\ Len(v.value) = 0)

\* path.dirname of a directory; the root is its own parent
Dirname(dir) == IF dir = <<>> THEN <<>> ELSE SubSeq(dir, 1, Len(dir) - 1)

\* path.join(dir, name) for a name without separators: "." and ".." are resolved
JoinSegment(dir, name) ==
  IF name = <<".">> THEN dir
  ELSE IF name = <<".", ".">> THEN Dirname(dir)
  ELSE Append(dir, name)

\* new Set(config.templates?.map((t) => t.source))
SourcesOf(templates) == {templates.items[k].source : k \in DOMAIN templates.items}

\* the first reference of refs, from k on, that is not in the templates array
RECURSIVE FirstDangling(_, _, _)
FirstDangling(refs, k, sources) ==
  IF k > Len(refs) THEN "none"
  ELSE IF refs[k] \notin sources THEN refs[k]
  ELSE FirstDangling(refs, k + 1, sources)

NoError == [kind |-> "ok"]

\* mutant of GroupError: the references of the group are not looked up
GroupErrorNoLookup(group, sources) ==
  IF Falsy(group.label) \/ group.label.type # "string"
  THEN [kind |-> "groupLabel"]
  ELSE IF group.templates.type # "array"
  THEN [kind |-> "groupTemplates", label |-> group.label.value]
  ELSE NoError

\* the body of the loop over alternateTemplateGroups for one group
GroupError(group, sources) ==
  IF Falsy(group.label) \/ group.label.type # "string"
  THEN [kind |-> "groupLabel"]
  ELSE IF group.templates.type # "array"
  THEN [kind |-> "groupTemplates", label |-> group.label.value]
  ELSE IF FirstDangling(group.templates.items, 1, sources) # "none"
  THEN [kind |-> "groupReference", label |-> group.label.value,
        source |-> FirstDangling(group.templates.items, 1, sources)]
  ELSE NoError

\* the loop over alternateTemplateGroups from group k on
RECURSIVE FirstGroupError(_, _, _)
FirstGroupError(groups, k, sources) ==
  IF k > Len(groups) THEN NoError
  ELSE IF GroupError(groups[k], sources) # NoError THEN GroupError(groups[k], sources)
  ELSE FirstGroupError(groups, k + 1, sources)

validCases == {"pascal", "camel", "kebab", "snake"}

\* validateConfig: the error it throws, or NoError when it returns true
validateConfig(config) ==
  IF config.type # "object"
  THEN [kind |-> "typeError"]
  ELSE LET c == config.fields IN
    IF Falsy(c.templatesDirectory) \/ c.templatesDirectory.type # "string"
    THEN [kind |-> "templatesDirectory"]
    ELSE IF Includes(c.templatesDirectory.value, <<"/">>)
            \/ Includes(c.templatesDirectory.value, <<"\\">>)
    THEN [kind |-> "templatesDirectorySegments"]
    ELSE IF c.directoryCase.type # "undefined"
            /\ ~(c.directoryCase.type = "string" /\ c.directoryCase.value \in validCases)
    THEN [kind |-> "directoryCase"]
    ELSE IF c.templates.type # "array"
    THEN [kind |-> "templates"]
    ELSE IF c.defaultTemplateGroup.type # "array"
    THEN [kind |-> "defaultTemplateGroup"]
    ELSE IF FirstDangling(c.defaultTemplateGroup.items, 1, SourcesOf(c.templates)) # "none"
    THEN [kind |-> "defaultReference",
          source |-> FirstDangling(c.defaultTemplateGroup.items, 1, SourcesOf(c.templates))]
    ELSE IF ~Falsy(c.alternateTemplateGroups)
    THEN (IF c.alternateTemplateGroups.type # "array"
          THEN [kind |-> "typeError"]
          ELSE FirstGroupError(c.alternateTemplateGroups.items, 1, SourcesOf(c.templates)))
    ELSE NoError

\* validateTemplates: one error for every entry of config.templates, from k on,
\* whose file fs.access does not find under templatesPath
RECURSIVE validateTemplates(_, _, _)
validateTemplates(templates, k, templatesPath) ==
  IF k > Len(templates) THEN <<>>
  ELSE (IF [dir |-> templatesPath, source |-> templates[k].source] \in templateFiles
        THEN <<>>
        ELSE <<[kind |-> "templateFile", source |-> templates[k].source]>>)
       \o validateTemplates(templates, k + 1, templatesPath)

\* validateFullConfig(config, configPath), configDir being path.dirname(configPath)
validateFullConfig(config, configDir) ==
  IF validateConfig(config) # NoError
  THEN [isValid |-> FALSE, errors |-> <<validateConfig(config)>>]
  ELSE LET errors == validateTemplates(config.fields.templates.items, 1,
                        JoinSegment(configDir, config.fields.templatesDirectory.value))
       IN [isValid |-> errors = <<>>, errors |-> errors]

----------------------------------------------------------------------------
(* utils/configurationUtils.ts: findConfig *)

\* what can lie at <dir>/.component-templates.json
Absent == [state |-> "absent"]

\* a file that fs.readFile cannot read (no permission, or a directory)
Unreadable == [state |-> "unreadable"]

\* a file whose text JSON.parse rejects
Malformed == [state |-> "malformed"]

\* a file whose text parses to the value config
JsonFile(config) == [state |-> "json", config |-> config]

\* fs.readFile(configPath, 'utf-8') resolves
Readable(dir) == configFiles[dir].state \in {"malformed", "json"}

Parses(dir) == configFiles[dir].state = "json"

NoConfig == [kind |-> "null"]

\* validationResult before validateFullConfig has returned
NoValidation == [isValid |-> FALSE, errors |-> <<>>]

\* vscode.window.showErrorMessage and the return of null
ReturnNull(message) ==
  /\ messages' = Append(messages, message)
  /\ cfgResult' = NoConfig
  /\ cfgPc' = "done"

Looping == cfgPc = "loop" /\ currentPath # Dirname(currentPath)

\* readFile rejects: the catch block moves up one directory
ProbeUnread ==
  /\ Looping
  /\ ~Readable(currentPath)
  /\ probes' = Append(probes, currentPath)
  /\ currentPath' = Dirname(currentPath)
  /\ UNCHANGED <<startPath, configFiles, templateFiles, cfgPc, cfgResult, messages,
                 channelShown, validationResult>>

\* mutant of ProbeMalformed: after a parse error the search goes on in the parent
ProbeMalformedKeepsSearching ==
  /\ Looping
  /\ Readable(currentPath)
  /\ ~Parses(currentPath)
  /\ probes' = Append(probes, currentPath)
  /\ currentPath' = Dirname(currentPath)
  /\ messages' = Append(messages, [kind |-> "parse", dir |-> currentPath])
  /\ UNCHANGED <<startPath, configFiles, templateFiles, cfgPc, cfgResult, channelShown,
                 validationResult>>

\* JSON.parse throws: the error is shown and null is returned
ProbeMalformed ==
  /\ Looping
  /\ Readable(currentPath)
  /\ ~Parses(currentPath)
  /\ probes' = Append(probes, currentPath)
  /\ ReturnNull([kind |-> "parse", dir |-> currentPath])
  /\ UNCHANGED <<startPath, configFiles, templateFiles, currentPath, channelShown,
                 validationResult>>

\* validation fails: the summary is shown, the details if the user asks for
\* them, and null is returned
ProbeInvalid(showDetails) ==
  /\ Looping
  /\ Parses(currentPath)
  /\ ~validateFullConfig(configFiles[currentPath].config, currentPath).isValid
  /\ probes' = Append(probes, currentPath)
  /\ ReturnNull([kind |-> "validation", dir |-> currentPath])
  /\ channelShown' = showDetails
  /\ validationResult' = validateFullConfig(configFiles[currentPath].config, currentPath)
  /\ UNCHANGED <<startPath, configFiles, templateFiles, currentPath>>

\* mutant of ProbeValid: a valid configuration is passed over for one further up
ProbeValidKeepsSearching ==
  /\ Looping
  /\ Parses(currentPath)
  /\ validateFullConfig(configFiles[currentPath].config, currentPath).isValid
  /\ probes' = Append(probes, currentPath)
  /\ IF \E k \in 1..Len(currentPath) : k >= 2 /\ Readable(SubSeq(currentPath, 1, k - 1))
     THEN /\ currentPath' = Dirname(currentPath)
          /\ UNCHANGED <<cfgResult, cfgPc>>
     ELSE /\ cfgResult' = [kind |-> "config", config |-> configFiles[currentPath].config,
                           configDir |-> currentPath]
          /\ cfgPc' = "done"
          /\ UNCHANGED currentPath
  /\ validationResult' = validateFullConfig(configFiles[currentPath].config, currentPath)
  /\ UNCHANGED <<startPath, configFiles, templateFiles, messages, channelShown>>

\* validation passes: the configuration and its directory are returned
ProbeValid ==
  /\ Looping
  /\ Parses(currentPath)
  /\ validateFullConfig(configFiles[currentPath].config, currentPath).isValid
  /\ probes' = Append(probes, currentPath)
  /\ cfgResult' = [kind |-> "config", config |-> configFiles[currentPath].config,
                   configDir |-> currentPath]
  /\ cfgPc' = "done"
  /\ validationResult' = validateFullConfig(configFiles[currentPath].config, currentPath)
  /\ UNCHANGED <<startPath, configFiles, templateFiles, currentPath, messages, channelShown>>

\* the while-loop ends at the directory that is its own parent
NotFound ==
  /\ cfgPc = "loop"
  /\ currentPath = Dirname(currentPath)
  /\ ReturnNull([kind |-> "notFound"])
  /\ UNCHANGED <<startPath, configFiles, templateFiles, currentPath, probes, channelShown,
                 validationResult>>

----------------------------------------------------------------------------
(* commands/*.ts: the five commands.  A command runs from the menu click to
   its last notification; its prompts, the file operations it issues itself
   and its notifications are recorded in cmdLog in the order they happen.
   The file operations of generateFromTemplates are those of the generation
   actions above. *)

Commands ==
  {"createWithDefaultFiles", "createAltComponent", "addFiles", "renameCommand",
   "forkComponentCommand"}

GenerationCommands == {"createWithDefaultFiles", "createAltComponent", "addFiles"}

Prompt(what) == [kind |-> "prompt", what |-> what]

Notification(severity) == [kind |-> "notify", what |-> severity]

Mutation(op) == [kind |-> "mutation", what |-> op]

\* the value of an input box or quick pick that has not been shown
Unasked == <<"?">>

\* the variables of generation that a command does not set itself
genCallState == <<files, dirs, run, pc, target, results, outcome, genResult, filesAtCall,
                  dirsAtCall, touched, writeLog, overwrote, firstRun>>

\* the command returns
End(how, entries) ==
  /\ cmdPc' = "done"
  /\ cmdEnd' = how
  /\ cmdLog' = cmdLog \o entries

\* the command goes on to its next await
Goto(next, entries) ==
  /\ cmdPc' = next
  /\ cmdEnd' = cmdEnd
  /\ cmdLog' = cmdLog \o entries

\* if (!uri || !uri.fsPath): the error is shown and the command returns
RejectUri ==
  /\ cmdPc = "start"
  /\ ~cmdUriGiven
  /\ End("noUri", <<Notification("error")>>)
  /\ UNCHANGED <<cmd, cmdUriGiven, cmdBase, cmdConfig, cmdGroup, cmdAnswer, genVars>>

\* await findConfig(uri.fsPath) returns null, having shown its error message
FindConfigNull ==
  /\ cmdPc = "start"
  /\ cmdUriGiven
  /\ cmdConfig' = NoConfig
  /\ End("noConfig", <<Notification("error")>>)
  /\ UNCHANGED <<cmd, cmdUriGiven, cmdBase, cmdGroup, cmdAnswer, genVars>>

\* config.alternateTemplateGroups of a returned configuration, <<>> if falsy
GroupsOf(found) ==
  IF Falsy(found.config.fields.alternateTemplateGroups) THEN <<>>
  ELSE found.config.fields.alternateTemplateGroups.items

DefaultGroupOf(found) == found.config.fields.defaultTemplateGroup.items

RECURSIVE GroupSources(_, _)
GroupSources(groups, k) ==
  IF k > Len(groups) THEN <<>>
  ELSE groups[k].templates.items \o GroupSources(groups, k + 1)

\* the sources of the selectable items of addFiles' quick pick, in their order
QuickPickSources(found) == DefaultGroupOf(found) \o GroupSources(GroupsOf(found), 1)

\* quickPickItems.length: the selectable items and one separator per section
QuickPickLength(found) ==
  Len(QuickPickSources(found))
    + (IF Len(DefaultGroupOf(found)) > 0 THEN 1 ELSE 0) + Len(GroupsOf(found))

\* await findConfig(uri.fsPath) returns a configuration; the command runs on
\* to its first prompt, or returns with an error
FindConfigFound(found) ==
  /\ cmdPc = "start"
  /\ cmdUriGiven
  /\ cmdConfig' = found
  /\ CASE cmd = "createAltComponent" ->
            IF Len(GroupsOf(found)) = 0
            THEN End("refused", <<Notification("error")>>)
            ELSE Goto("pickGroup", <<>>)
       [] cmd = "addFiles" ->
            IF validateComponentName(cmdBase)
            THEN End("refused", <<Notification("error")>>)
            ELSE IF QuickPickLength(found) = 0
            THEN End("refused", <<Notification("error")>>)
            ELSE Goto("selectFiles", <<>>)
       [] OTHER -> Goto("askName", <<>>)
  /\ UNCHANGED <<cmd, cmdUriGiven, cmdBase, cmdGroup, cmdAnswer, genVars>>

\* await showQuickPick(quickPickItems) of createAltComponent returns: group 0
\* is the dismissed pick
PickGroup ==
  /\ cmdPc = "pickGroup"
  /\ \E group \in 0..Len(GroupsOf(cmdConfig)) :
       /\ cmdGroup' = group
       /\ IF group = 0
          THEN End("cancelled", <<Prompt("showQuickPick")>>)
          ELSE Goto("askName", <<Prompt("showQuickPick")>>)
  /\ UNCHANGED <<cmd, cmdUriGiven, cmdBase, cmdConfig, cmdAnswer, genVars>>

\* mutant of AskName: renameCommand does not compare the new name with the
\* current one
AskNameNoSameCheck(answer) ==
  /\ cmdPc = "askName"
  /\ answer = Null \/ ~validateComponentName(answer)
  /\ cmdAnswer' = answer
  /\ CASE cmd \in {"createWithDefaultFiles", "createAltComponent"} ->
            IF answer = Null
            THEN /\ End("cancelled", <<Prompt("showInputBox")>>)
                 /\ UNCHANGED <<componentName, templateSources>>
            ELSE /\ Goto("generate", <<Prompt("showInputBox")>>)
                 /\ componentName' = answer
                 /\ templateSources' =
                      IF cmd = "createWithDefaultFiles" THEN DefaultGroupOf(cmdConfig)
                      ELSE GroupsOf(cmdConfig)[cmdGroup].templates.items
       [] cmd = "renameCommand" ->
            /\ IF answer = Null THEN End("cancelled", <<Prompt("showInputBox")>>)
               ELSE Goto("renameDirectory", <<Prompt("showInputBox")>>)
            /\ UNCHANGED <<componentName, templateSources>>
       [] cmd = "forkComponentCommand" ->
            /\ IF answer = Null THEN End("cancelled", <<Prompt("showInputBox")>>)
               ELSE IF answer = cmdBase
               THEN End("refused", <<Prompt("showInputBox"), Notification("error")>>)
               ELSE Goto("forkAccess", <<Prompt("showInputBox")>>)
            /\ UNCHANGED <<componentName, templateSources>>
  /\ UNCHANGED <<cmd, cmdUriGiven, cmdBase, cmdConfig, cmdGroup, genCallState>>

\* await showInputBox(...) returns: Null is the dismissed box, and the box
\* accepts no name for which validateInput returns a message
AskName(answer) ==
  /\ cmdPc = "askName"
  /\ answer = Null \/ ~validateComponentName(answer)
  /\ cmdAnswer' = answer
  /\ CASE cmd \in {"createWithDefaultFiles", "createAltComponent"} ->
            IF answer = Null
            THEN /\ End("cancelled", <<Prompt("showInputBox")>>)
                 /\ UNCHANGED <<componentName, templateSources>>
            ELSE /\ Goto("generate", <<Prompt("showInputBox")>>)
                 /\ componentName' = answer
                 /\ templateSources' =
                      IF cmd = "createWithDefaultFiles" THEN DefaultGroupOf(cmdConfig)
                      ELSE GroupsOf(cmdConfig)[cmdGroup].templates.items
       [] cmd = "renameCommand" ->
            /\ IF answer = Null THEN End("cancelled", <<Prompt("showInputBox")>>)
               ELSE IF answer = cmdBase THEN End("sameName", <<Prompt("showInputBox")>>)
               ELSE Goto("renameDirectory", <<Prompt("showInputBox")>>)
            /\ UNCHANGED <<componentName, templateSources>>
       [] cmd = "forkComponentCommand" ->
            /\ IF answer = Null THEN End("cancelled", <<Prompt("showInputBox")>>)
               ELSE IF answer = cmdBase
               THEN End("refused", <<Prompt("showInputBox"), Notification("error")>>)
               ELSE Goto("forkAccess", <<Prompt("showInputBox")>>)
            /\ UNCHANGED <<componentName, templateSources>>
  /\ UNCHANGED <<cmd, cmdUriGiven, cmdBase, cmdConfig, cmdGroup, genCallState>>

----------------------------------------------------------------------------
(* Specification of generation: one call of generateFromTemplates and a second
   call with the same arguments *)

\* the longest list of selected templates
MaxBatch == 2

\* component names as typed: a camelCase name and one whose case is not detected
ComponentNames == { <<"m","y","T","h","i","n","g">>, <<"M","y","-","C","o","m","p","o","n","e","n","t">> }

\* the sources that can be selected; "x.tmpl" is not in the registry
SourceNames == {"a.tmpl", "b.tmpl", "c.tmpl", "x.tmpl"}

SeqsUpTo(S, n) == UNION {[1..k -> S] : k \in 0..n}

\* the paths at which a file of the component may lie before the call
PossiblePaths(name) ==
  {PathJoin(PathJoin(TargetDirectory, name), processTokens(TemplateItems[k].target, name)) :
     k \in DOMAIN TemplateItems}

GenIdle ==
  /\ componentName = <<>>
  /\ templateSources = <<>>
  /\ files = EmptyFiles
  /\ dirs = {}
  /\ run = 0
  /\ pc = <<>>
  /\ target = <<>>
  /\ results = <<>>
  /\ outcome = "none"
  /\ genResult = NoGenResult
  /\ filesAtCall = EmptyFiles
  /\ dirsAtCall = {}
  /\ touched = <<>>
  /\ writeLog = [p \in {} |-> 0]
  /\ overwrote = {}
  /\ firstRun = [outcome |-> "none", result |-> NoGenResult, files |-> EmptyFiles,
                 results |-> <<>>, pc |-> <<>>]

TokIdle ==
  /\ tokInput = <<>>
  /\ tokName = <<>>
  /\ tokOutput = <<>>
  /\ tokDone = FALSE

CfgIdle ==
  /\ startPath = <<>>
  /\ configFiles = <<>>
  /\ templateFiles = {}
  /\ currentPath = <<>>
  /\ cfgPc = "idle"
  /\ cfgResult = [kind |-> "none"]
  /\ probes = <<>>
  /\ messages = <<>>
  /\ channelShown = FALSE
  /\ validationResult = NoValidation

CmdIdle ==
  /\ cmd = "none"
  /\ cmdUriGiven = FALSE
  /\ cmdBase = <<>>
  /\ cmdPc = "idle"
  /\ cmdConfig = [kind |-> "none"]
  /\ cmdGroup = 0
  /\ cmdAnswer = Unasked
  /\ cmdLog = <<>>
  /\ cmdEnd = "none"

\* no fork or rename is under way
TreeIdle ==
  /\ treeCmd = "none"
  /\ sourceName = <<>>
  /\ targetName = <<>>
  /\ tree = <<>>
  /\ treeAtStart = <<>>
  /\ treePc = "idle"
  /\ frames = <<>>
  /\ fsLog = <<>>
  /\ shown = <<>>
  /\ writes = <<>>
  /\ wsCount = 0
  /\ scanned = <<>>
  /\ workspaceEdit = <<>>
  /\ applied = <<>>

CaseIdle ==
  /\ caseName = <<>>
  /\ casePc = "idle"
  /\ caseDetected = "none"
  /\ caseValid = FALSE
  /\ caseNameError = FALSE
  /\ caseTransforms = <<>>
  /\ caseVariants = <<>>
  /\ caseChain = <<>>

GenInit ==
  /\ componentName \in ComponentNames
  /\ templateSources \in SeqsUpTo(SourceNames, MaxBatch)
  /\ \E P \in SUBSET PossiblePaths(componentName) :
       /\ files = [p \in P |-> OldContent]
       /\ dirs = {TargetDirectory} \cup
                   (IF P = {} THEN {} ELSE {PathJoin(TargetDirectory, componentName)})
  /\ run = 0
  /\ pc = <<>>
  /\ target = <<>>
  /\ results = <<>>
  /\ outcome = "none"
  /\ genResult = NoGenResult
  /\ filesAtCall = EmptyFiles
  /\ dirsAtCall = {}
  /\ touched = <<>>
  /\ writeLog = [p \in {} |-> 0]
  /\ overwrote = {}
  /\ firstRun = [outcome |-> "none", result |-> NoGenResult, files |-> EmptyFiles,
                 results |-> <<>>, pc |-> <<>>]

Init == GenInit /\ TokIdle /\ CfgIdle /\ CaseIdle /\ CmdIdle /\ TreeIdle

Next ==
  \/ (Call(1) /\ UNCHANGED <<tokVars, cfgVars, caseVars, cmdVars, treeVars>>)
  \/ (Call(2) /\ UNCHANGED <<tokVars, cfgVars, caseVars, cmdVars, treeVars>>)
  \/ (\E i \in Renders : Access(i) /\ UNCHANGED <<tokVars, cfgVars, caseVars, cmdVars, treeVars>>)
  \/ (\E i \in Renders, ok \in BOOLEAN : ReadTemplate(i, ok) /\ UNCHANGED <<tokVars, cfgVars, caseVars, cmdVars, treeVars>>)
  \/ (\E i \in Renders, ok \in BOOLEAN : Mkdir(i, ok) /\ UNCHANGED <<tokVars, cfgVars, caseVars, cmdVars, treeVars>>)
  \/ (\E i \in Renders, ok \in BOOLEAN : Write(i, ok) /\ UNCHANGED <<tokVars, cfgVars, caseVars, cmdVars, treeVars>>)
  \/ (Settle /\ UNCHANGED <<tokVars, cfgVars, caseVars, cmdVars, treeVars>>)

Spec == Init /\ [][Next]_vars

----------------------------------------------------------------------------
(* Specification of findConfig: one call, on a chain of directories each of
   which holds no configuration file, an unreadable or a malformed one, or one
   of the sample configurations *)

\* the deepest start directory
MaxDepth == 3

Segment == <<"d">>

TemplatesDirName == <<"t","p","l">>

TemplateA == [source |-> "a.tmpl", target |-> <<"{","{","P","a","s","c","a","l","C","a","s","e","C","o","m","p","o","n","e","n","t","N","a","m","e","}","}">> \o <<".","t","x","t">>, label |-> "A"]

TemplateC == [source |-> "c.tmpl", target |-> <<"i","n","d","e","x",".","t","s">>, label |-> "C"]

ValidConfig ==
  JObj([templatesDirectory |-> JStr(TemplatesDirName),
        directoryCase |-> JStr("pascal"),
        templates |-> JArr(<<TemplateA, TemplateC>>),
        defaultTemplateGroup |-> JArr(<<"a.tmpl", "c.tmpl">>),
        alternateTemplateGroups |-> JUndef])

\* the templates directory is not named
NoDirectoryConfig ==
  JObj([templatesDirectory |-> JUndef,
        directoryCase |-> JUndef,
        templates |-> JArr(<<TemplateA>>),
        defaultTemplateGroup |-> JArr(<<"a.tmpl">>),
        alternateTemplateGroups |-> JUndef])

\* a group refers to a template that is not in the templates array
DanglingConfig ==
  JObj([templatesDirectory |-> JStr(TemplatesDirName),
        directoryCase |-> JUndef,
        templates |-> JArr(<<TemplateA>>),
        defaultTemplateGroup |-> JArr(<<"a.tmpl">>),
        alternateTemplateGroups |->
          JArr(<<[label |-> JStr(<<"G">>), templates |-> JArr(<<"a.tmpl", "c.tmpl">>)]>>)])

\* the templates directory is named by a path
SeparatorConfig ==
  JObj([templatesDirectory |-> JStr(<<"t","/","p">>),
        directoryCase |-> JUndef,
        templates |-> JArr(<<TemplateA>>),
        defaultTemplateGroup |-> JArr(<<"a.tmpl">>),
        alternateTemplateGroups |-> JUndef])

\* the templates directory is named ".."
ParentDirConfig ==
  JObj([templatesDirectory |-> JStr(<<".",".">>),
        directoryCase |-> JUndef,
        templates |-> JArr(<<TemplateA>>),
        defaultTemplateGroup |-> JArr(<<"a.tmpl">>),
        alternateTemplateGroups |-> JUndef])

\* directoryCase is not one of the four cases
BadCaseConfig ==
  JObj([templatesDirectory |-> JStr(TemplatesDirName),
        directoryCase |-> JStr("upper"),
        templates |-> JArr(<<TemplateA>>),
        defaultTemplateGroup |-> JArr(<<"a.tmpl">>),
        alternateTemplateGroups |-> JUndef])

\* there is no templates array
NoTemplatesConfig ==
  JObj([templatesDirectory |-> JStr(TemplatesDirName),
        directoryCase |-> JUndef,
        templates |-> JUndef,
        defaultTemplateGroup |-> JArr(<<"a.tmpl">>),
        alternateTemplateGroups |-> JUndef])

\* defaultTemplateGroup is not an array
NoDefaultGroupConfig ==
  JObj([templatesDirectory |-> JStr(TemplatesDirName),
        directoryCase |-> JUndef,
        templates |-> JArr(<<TemplateA>>),
        defaultTemplateGroup |-> JNum,
        alternateTemplateGroups |-> JUndef])

\* three references, two in defaultTemplateGroup and one in a group, are not
\* in the templates array
ManyDanglingConfig ==
  JObj([templatesDirectory |-> JStr(TemplatesDirName),
        directoryCase |-> JUndef,
        templates |-> JArr(<<TemplateA>>),
        defaultTemplateGroup |-> JArr(<<"x.tmpl", "a.tmpl", "y.tmpl">>),
        alternateTemplateGroups |->
          JArr(<<[label |-> JStr(<<"G">>), templates |-> JArr(<<"z.tmpl">>)]>>)])

\* a group has an empty label
UnlabelledGroupConfig ==
  JObj([templatesDirectory |-> JStr(TemplatesDirName),
        directoryCase |-> JUndef,
        templates |-> JArr(<<TemplateA>>),
        defaultTemplateGroup |-> JArr(<<"a.tmpl">>),
        alternateTemplateGroups |->
          JArr(<<[label |-> JStr(<<>>), templates |-> JArr(<<"a.tmpl">>)]>>)])

\* a group has no templates array
GroupNoArrayConfig ==
  JObj([templatesDirectory |-> JStr(TemplatesDirName),
        directoryCase |-> JUndef,
        templates |-> JArr(<<TemplateA>>),
        defaultTemplateGroup |-> JArr(<<"a.tmpl">>),
        alternateTemplateGroups |->
          JArr(<<[label |-> JStr(<<"G">>), templates |-> JUndef]>>)])

\* alternateTemplateGroups is a number
GroupsNoArrayConfig ==
  JObj([templatesDirectory |-> JStr(TemplatesDirName),
        directoryCase |-> JUndef,
        templates |-> JArr(<<TemplateA>>),
        defaultTemplateGroup |-> JArr(<<"a.tmpl">>),
        alternateTemplateGroups |-> JNum])

\* two well-formed groups
GroupedConfig ==
  JObj([templatesDirectory |-> JStr(TemplatesDirName),
        directoryCase |-> JStr("kebab"),
        templates |-> JArr(<<TemplateA, TemplateC>>),
        defaultTemplateGroup |-> JArr(<<"a.tmpl">>),
        alternateTemplateGroups |->
          JArr(<<[label |-> JStr(<<"G">>), templates |-> JArr(<<"a.tmpl", "c.tmpl">>)],
                 [label |-> JStr(<<"H">>), templates |-> JArr(<<"c.tmpl">>)]>>)])

\* alternateTemplateGroups is null
NullGroupsConfig ==
  JObj([templatesDirectory |-> JStr(TemplatesDirName),
        directoryCase |-> JUndef,
        templates |-> JArr(<<TemplateC>>),
        defaultTemplateGroup |-> JArr(<<>>),
        alternateTemplateGroups |-> JNull])

\* what a directory holds: its configuration file, the sources present as
\* files, and the directory (named relative to it) in which they lie
Scenarios ==
  { [file |-> Absent, present |-> {}, under |-> TemplatesDirName],
    [file |-> Unreadable, present |-> {}, under |-> TemplatesDirName],
    [file |-> Malformed, present |-> {"a.tmpl", "c.tmpl"}, under |-> TemplatesDirName],
    [file |-> JsonFile(ValidConfig), present |-> {"a.tmpl", "c.tmpl"}, under |-> TemplatesDirName],
    [file |-> JsonFile(ValidConfig), present |-> {"c.tmpl"}, under |-> TemplatesDirName],
    [file |-> JsonFile(NoDirectoryConfig), present |-> {"a.tmpl", "c.tmpl"}, under |-> TemplatesDirName],
    [file |-> JsonFile(DanglingConfig), present |-> {"a.tmpl", "c.tmpl"}, under |-> TemplatesDirName] }

\* what the start directory can hold besides
StartScenarios ==
  { [file |-> JsonFile(ValidConfig), present |-> {}, under |-> TemplatesDirName],
    [file |-> JsonFile(SeparatorConfig), present |-> {"a.tmpl"}, under |-> TemplatesDirName],
    [file |-> JsonFile(ParentDirConfig), present |-> {"a.tmpl"}, under |-> <<".",".">>],
    [file |-> JsonFile(ParentDirConfig), present |-> {"a.tmpl"}, under |-> TemplatesDirName],
    [file |-> JsonFile(BadCaseConfig), present |-> {"a.tmpl"}, under |-> TemplatesDirName],
    [file |-> JsonFile(NoTemplatesConfig), present |-> {"a.tmpl"}, under |-> TemplatesDirName],
    [file |-> JsonFile(NoDefaultGroupConfig), present |-> {"a.tmpl"}, under |-> TemplatesDirName],
    [file |-> JsonFile(ManyDanglingConfig), present |-> {"a.tmpl"}, under |-> TemplatesDirName],
    [file |-> JsonFile(UnlabelledGroupConfig), present |-> {"a.tmpl"}, under |-> TemplatesDirName],
    [file |-> JsonFile(GroupNoArrayConfig), present |-> {"a.tmpl"}, under |-> TemplatesDirName],
    [file |-> JsonFile(GroupsNoArrayConfig), present |-> {"a.tmpl"}, under |-> TemplatesDirName],
    [file |-> JsonFile(GroupedConfig), present |-> {"a.tmpl", "c.tmpl"}, under |-> TemplatesDirName],
    [file |-> JsonFile(GroupedConfig), present |-> {"a.tmpl"}, under |-> TemplatesDirName],
    [file |-> JsonFile(NullGroupsConfig), present |-> {"c.tmpl"}, under |-> TemplatesDirName] }

\* startPath and its ancestors, the root included
Ancestors(path) == {SubSeq(path, 1, k) : k \in 0..Len(path)}

CfgInit ==
  /\ startPath \in {[k \in 1..n |-> Segment] : n \in 0..MaxDepth}
  /\ \E first \in Scenarios \cup StartScenarios :
       \E above \in [Ancestors(startPath) \ {startPath} -> Scenarios] :
         LET scenario == [d \in Ancestors(startPath) |->
                           IF d = startPath THEN first ELSE above[d]]
         IN /\ configFiles = [d \in Ancestors(startPath) |-> scenario[d].file]
            /\ templateFiles =
                 UNION {{[dir |-> JoinSegment(d, scenario[d].under), source |-> src] :
                           src \in scenario[d].present} : d \in Ancestors(startPath)}
  /\ currentPath = startPath
  /\ cfgPc = "loop"
  /\ cfgResult = [kind |-> "none"]
  /\ probes = <<>>
  /\ messages = <<>>
  /\ channelShown = FALSE
  /\ validationResult = NoValidation

CfgNext ==
  \/ (ProbeUnread /\ UNCHANGED <<genVars, tokVars, caseVars, cmdVars, treeVars>>)
  \/ (ProbeMalformed /\ UNCHANGED <<genVars, tokVars, caseVars, cmdVars, treeVars>>)
  \/ (\E showDetails \in BOOLEAN : ProbeInvalid(showDetails) /\ UNCHANGED <<genVars, tokVars, caseVars, cmdVars, treeVars>>)
  \/ (ProbeValid /\ UNCHANGED <<genVars, tokVars, caseVars, cmdVars, treeVars>>)
  \/ (NotFound /\ UNCHANGED <<genVars, tokVars, caseVars, cmdVars, treeVars>>)

InitCfg == GenIdle /\ TokIdle /\ CfgInit /\ CaseIdle /\ CmdIdle /\ TreeIdle

SpecCfg == InitCfg /\ [][CfgNext]_vars

----------------------------------------------------------------------------
(* Specification of the case engine: the functions of caseUtils applied to one
   name, and transform applied again to what it returned *)

\* the longest enumerated name
MaxNameLen == 3

\* the most successive conversions
MaxConversions == 3

\* a lowercase letter, an uppercase letter, a digit, the two separators, a dot
NameAlphabet == {"a", "B", "2", "-", "_", "."}

\* the names of the test suite and of the README, and some more
SampleNames ==
  { <<"B","u","t","t","o","n","2">>, <<"b","u","t","t","o","n">>, <<"M","y","C","o","m","p","o","n","e","n","t">>, <<"m","y","-","c","o","m","p","o","n","e","n","t">>, <<"m","y","_","c","o","m","p","o","n","e","n","t">>, <<"u","s","e","r","P","r","o","f","i","l","e","C","a","r","d">>, <<"X","M","L","P","a","r","s","e","r">>, <<"M","y","-","C","o","m","p","o","n","e","n","t">>, <<"M","Y","_","C","O","M","P","O","N","E","N","T">>, <<"m","y"," ","c","o","m","p","o","n","e","n","t">>, <<"m","y",".","c","o","m","p","o","n","e","n","t">>, <<"1","2","3","C","o","m","p","o","n","e","n","t">>, <<"a","-","b","_","c">>, <<"-","m","y","C","o","m","p","o","n","e","n","t">>, <<"_","m","y","C","o","m","p","o","n","e","n","t">> }

\* detectCase, isValidCase, validateComponentName, transform to each case and
\* getAllCaseVariants are applied to caseName
Inspect ==
  /\ casePc = "start"
  /\ casePc' = "inspected"
  /\ caseDetected' = detectCase(caseName)
  /\ caseValid' = isValidCase(caseName)
  /\ caseNameError' = validateComponentName(caseName)
  /\ caseTransforms' = [c \in CaseTypes |-> transform(caseName, c)]
  /\ caseVariants' = getAllCaseVariants(caseName)
  /\ UNCHANGED <<caseName, caseChain>>

\* what the next conversion is applied to
LastOutput == IF caseChain = <<>> THEN caseName ELSE caseChain[Len(caseChain)].output

\* transform(<the last output>, targetCase); the case detected in what it
\* returns is recorded with it
Convert(targetCase) ==
  /\ casePc = "inspected"
  /\ Len(caseChain) < MaxConversions
  /\ LastOutput # Null
  /\ caseChain' = Append(caseChain,
                          [targetCase |-> targetCase,
                           output |-> transform(LastOutput, targetCase),
                           detected |-> detectCase(transform(LastOutput, targetCase))])
  /\ UNCHANGED <<caseName, casePc, caseDetected, caseValid, caseNameError, caseTransforms,
                 caseVariants>>

CaseInit ==
  /\ caseName \in SeqsUpTo(NameAlphabet, MaxNameLen) \cup SampleNames
  /\ casePc = "start"
  /\ caseDetected = "none"
  /\ caseValid = FALSE
  /\ caseNameError = FALSE
  /\ caseTransforms = <<>>
  /\ caseVariants = <<>>
  /\ caseChain = <<>>

CaseNext ==
  \/ (Inspect /\ UNCHANGED <<genVars, tokVars, cfgVars, cmdVars, treeVars>>)
  \/ (\E targetCase \in CaseTypes : Convert(targetCase) /\ UNCHANGED <<genVars, tokVars, cfgVars, cmdVars, treeVars>>)

InitCase == GenIdle /\ TokIdle /\ CfgIdle /\ CaseInit /\ CmdIdle /\ TreeIdle

SpecCase == InitCase /\ [][CaseNext]_vars

\* the sources at the picked positions of items, in the order of items
RECURSIVE PickSources(_, _, _)
PickSources(items, k, picked) ==
  IF k > Len(items) THEN <<>>
  ELSE (IF k \in picked THEN <<items[k]>> ELSE <<>>) \o PickSources(items, k + 1, picked)

\* await showQuickPick(quickPickItems, canPickMany) of addFiles returns the
\* items at the picked positions; nothing is picked when it is dismissed
SelectFiles ==
  /\ cmdPc = "selectFiles"
  /\ \E picked \in SUBSET DOMAIN QuickPickSources(cmdConfig) :
       IF picked = {}
       THEN /\ End("cancelled", <<Prompt("showQuickPick")>>)
            /\ UNCHANGED <<componentName, templateSources>>
       ELSE /\ Goto("generate", <<Prompt("showQuickPick")>>)
            /\ componentName' = cmdBase
            /\ templateSources' = PickSources(QuickPickSources(cmdConfig), 1, picked)
  /\ UNCHANGED <<cmd, cmdUriGiven, cmdBase, cmdConfig, cmdGroup, cmdAnswer, genCallState>>

\* generateFromTemplates(...) is called
CallGenerate ==
  /\ cmdPc = "generate"
  /\ Call(1)
  /\ Goto("generating", <<Mutation("generateFromTemplates")>>)
  /\ UNCHANGED <<cmd, cmdUriGiven, cmdBase, cmdConfig, cmdGroup, cmdAnswer>>

\* a file operation of the running batch settles
GenerateStep ==
  /\ cmdPc = "generating"
  /\ \/ \E i \in Renders : Access(i)
     \/ \E i \in Renders, ok \in BOOLEAN : ReadTemplate(i, ok)
     \/ \E i \in Renders, ok \in BOOLEAN : Mkdir(i, ok)
     \/ \E i \in Renders, ok \in BOOLEAN : Write(i, ok)
     \/ Settle
  /\ UNCHANGED <<cmd, cmdUriGiven, cmdBase, cmdPc, cmdConfig, cmdGroup, cmdAnswer, cmdLog, cmdEnd>>

\* the notification after await generateFromTemplates(...): the catch block
\* shows an error; createWithDefaultFiles and createAltComponent show the
\* success message whatever the result; addFiles looks at the result
ReportSeverity(command, settled, result) ==
  IF settled = "rejected" THEN "error"
  ELSE IF command \in {"createWithDefaultFiles", "createAltComponent"} THEN "info"
  ELSE IF Len(result.existingFiles) > 0 THEN "warning"
  ELSE IF Len(result.addedFiles) > 0 THEN "info"
  ELSE "error"

\* await generateFromTemplates(...) has settled
Report ==
  /\ cmdPc = "generating"
  /\ outcome \in {"resolved", "rejected"}
  /\ End("reported", <<Notification(ReportSeverity(cmd, outcome, genResult))>>)
  /\ UNCHANGED <<cmd, cmdUriGiven, cmdBase, cmdConfig, cmdGroup, cmdAnswer, genVars>>

\* a step of renameComponent or copyDirectory that issues the file operation
\* op: it goes on to next when the operation succeeds, else the catch block of
\* the command shows the error
FileStep(at, op, ok, next) ==
  /\ cmdPc = at
  /\ IF ok THEN Goto(next, <<Mutation(op)>>)
     ELSE End("failed", <<Mutation(op), Notification("error")>>)
  /\ UNCHANGED <<cmd, cmdUriGiven, cmdBase, cmdConfig, cmdGroup, cmdAnswer, genVars>>

\* renameComponent: await fs.rename(oldPath, newPath)
RenameDirectory(ok) == FileStep("renameDirectory", "rename", ok, "renameFiles")

\* renameComponent: the loop of fs.rename over the files of the directory
RenameFiles(ok) == FileStep("renameFiles", "rename", ok, "rewriteContents")

\* renameComponent: the loop of fs.readFile and fs.writeFile over the files
RewriteContents(ok) == FileStep("rewriteContents", "writeFile", ok, "updateImports")

\* updateImportReferences: it throws when the case of a name is not detected;
\* else the rename provider is invoked for every matching import, the edits are
\* applied and renameCommand shows the success message
UpdateImports(matches, ok) ==
  /\ cmdPc = "updateImports"
  /\ IF detectCase(cmdBase) = "none" \/ detectCase(cmdAnswer) = "none"
     THEN End("failed", <<Notification("error")>>)
     ELSE LET edits == (IF matches THEN <<Mutation("executeDocumentRenameProvider")>> ELSE <<>>)
                         \o <<Mutation("applyEdit")>>
          IN IF ok THEN End("succeeded", edits \o <<Notification("info")>>)
             ELSE End("failed", edits \o <<Notification("error")>>)
  /\ UNCHANGED <<cmd, cmdUriGiven, cmdBase, cmdConfig, cmdGroup, cmdAnswer, genVars>>

\* forkComponent: await fs.access(targetPath) settles: the target exists, or
\* the access fails with ENOENT, or it fails otherwise
ForkAccess(result) ==
  /\ cmdPc = "forkAccess"
  /\ IF result = "ENOENT" THEN Goto("copyDirectory", <<>>)
     ELSE End("refused", <<Notification("error")>>)
  /\ UNCHANGED <<cmd, cmdUriGiven, cmdBase, cmdConfig, cmdGroup, cmdAnswer, genVars>>

\* copyDirectory: fs.mkdir of the target, then the loop that writes the files
MakeTarget(ok) == FileStep("copyDirectory", "mkdir", ok, "copyFiles")

CopyFiles(ok) ==
  /\ cmdPc = "copyFiles"
  /\ IF ok THEN End("succeeded", <<Mutation("writeFile"), Notification("info")>>)
     ELSE End("failed", <<Mutation("writeFile"), Notification("error")>>)
  /\ UNCHANGED <<cmd, cmdUriGiven, cmdBase, cmdConfig, cmdGroup, cmdAnswer, genVars>>

----------------------------------------------------------------------------
(* Specification of the commands: one run of one command *)

TemplateB == [source |-> "b.tmpl", target |-> TemplateA.target, label |-> "B"]

\* the configurations findConfig returns to the commands: with and without
\* alternate groups, with nothing to generate, and with directoryCase set
CommandConfigs ==
  { JObj([templatesDirectory |-> JStr(TemplatesDirName),
          directoryCase |-> JUndef,
          templates |-> JArr(<<TemplateA, TemplateB, TemplateC>>),
          defaultTemplateGroup |-> JArr(<<"a.tmpl", "c.tmpl">>),
          alternateTemplateGroups |->
            JArr(<<[label |-> JStr(<<"G">>), templates |-> JArr(<<"b.tmpl">>)]>>)]),
    JObj([templatesDirectory |-> JStr(TemplatesDirName),
          directoryCase |-> JUndef,
          templates |-> JArr(<<TemplateA, TemplateB, TemplateC>>),
          defaultTemplateGroup |-> JArr(<<"c.tmpl">>),
          alternateTemplateGroups |-> JUndef]),
    JObj([templatesDirectory |-> JStr(TemplatesDirName),
          directoryCase |-> JUndef,
          templates |-> JArr(<<>>),
          defaultTemplateGroup |-> JArr(<<>>),
          alternateTemplateGroups |-> JArr(<<>>)]),
    JObj([templatesDirectory |-> JStr(TemplatesDirName),
          directoryCase |-> JStr("pascal"),
          templates |-> JArr(<<TemplateA, TemplateC>>),
          defaultTemplateGroup |-> JArr(<<"c.tmpl">>),
          alternateTemplateGroups |->
            JArr(<<[label |-> JStr(<<"G">>), templates |-> JArr(<<"a.tmpl">>)]>>)]) }

\* the names of the right-clicked directory
DirectoryNames == { <<"m","y","T","h","i","n","g">>, <<"M","y","-","C","o","m","p","o","n","e","n","t">> }

\* what the user can type into the input box
TypedNames == { <<"m","y","T","h","i","n","g">>, <<"o","t","h","e","r">>, <<"M","y","-","C","o","m","p","o","n","e","n","t">> }

CmdInit ==
  /\ cmd \in Commands
  /\ cmdUriGiven \in BOOLEAN
  /\ cmdBase \in DirectoryNames
  /\ cmdPc = "start"
  /\ cmdConfig = [kind |-> "none"]
  /\ cmdGroup = 0
  /\ cmdAnswer = Unasked
  /\ cmdLog = <<>>
  /\ cmdEnd = "running"
  /\ componentName = <<>>
  /\ templateSources = <<>>
  /\ \E P \in SUBSET PossiblePaths(<<"m","y","T","h","i","n","g">>) :
       /\ files = [p \in P |-> OldContent]
       /\ dirs = {TargetDirectory} \cup
                   (IF P = {} THEN {} ELSE {PathJoin(TargetDirectory, <<"m","y","T","h","i","n","g">>)})
  /\ run = 0
  /\ pc = <<>>
  /\ target = <<>>
  /\ results = <<>>
  /\ outcome = "none"
  /\ genResult = NoGenResult
  /\ filesAtCall = EmptyFiles
  /\ dirsAtCall = {}
  /\ touched = <<>>
  /\ writeLog = [p \in {} |-> 0]
  /\ overwrote = {}
  /\ firstRun = [outcome |-> "none", result |-> NoGenResult, files |-> EmptyFiles,
                 results |-> <<>>, pc |-> <<>>]

CmdNext ==
  \/ (RejectUri /\ UNCHANGED <<tokVars, cfgVars, caseVars, treeVars>>)
  \/ (FindConfigNull /\ UNCHANGED <<tokVars, cfgVars, caseVars, treeVars>>)
  \/ (\E c \in CommandConfigs :
        FindConfigFound([kind |-> "config", config |-> c, configDir |-> <<>>])
          /\ UNCHANGED <<tokVars, cfgVars, caseVars, treeVars>>)
  \/ (PickGroup /\ UNCHANGED <<tokVars, cfgVars, caseVars, treeVars>>)
  \/ (\E answer \in TypedNames \cup {Null} : AskName(answer) /\ UNCHANGED <<tokVars, cfgVars, caseVars, treeVars>>)
  \/ (SelectFiles /\ UNCHANGED <<tokVars, cfgVars, caseVars, treeVars>>)
  \/ (CallGenerate /\ UNCHANGED <<tokVars, cfgVars, caseVars, treeVars>>)
  \/ (GenerateStep /\ UNCHANGED <<tokVars, cfgVars, caseVars, treeVars>>)
  \/ (Report /\ UNCHANGED <<tokVars, cfgVars, caseVars, treeVars>>)
  \/ (\E ok \in BOOLEAN : RenameDirectory(ok) /\ UNCHANGED <<tokVars, cfgVars, caseVars, treeVars>>)
  \/ (\E ok \in BOOLEAN : RenameFiles(ok) /\ UNCHANGED <<tokVars, cfgVars, caseVars, treeVars>>)
  \/ (\E ok \in BOOLEAN : RewriteContents(ok) /\ UNCHANGED <<tokVars, cfgVars, caseVars, treeVars>>)
  \/ (\E matches \in BOOLEAN, ok \in BOOLEAN : UpdateImports(matches, ok) /\ UNCHANGED <<tokVars, cfgVars, caseVars, treeVars>>)
  \/ (\E result \in {"exists", "ENOENT", "EACCES"} : ForkAccess(result) /\ UNCHANGED <<tokVars, cfgVars, caseVars, treeVars>>)
  \/ (\E ok \in BOOLEAN : MakeTarget(ok) /\ UNCHANGED <<tokVars, cfgVars, caseVars, treeVars>>)
  \/ (\E ok \in BOOLEAN : CopyFiles(ok) /\ UNCHANGED <<tokVars, cfgVars, caseVars, treeVars>>)

InitCmd == CmdInit /\ TokIdle /\ CfgIdle /\ CaseIdle /\ TreeIdle

SpecCmd == InitCmd /\ [][CmdNext]_vars

----------------------------------------------------------------------------
(* commands/forkComponent.ts and commands/rename.ts on a tree of files.     *)
(* A path is a sequence of entry names below the directory that holds the   *)
(* component (path.dirname(uri.fsPath)); an entry name is a string.         *)

\* String.prototype.replace with a string pattern: the first occurrence only
RECURSIVE ReplaceFirst(_, _, _)
ReplaceFirst(s, pat, rep) ==
  IF Len(s) < Len(pat) THEN s
  ELSE IF OccursAt(s, pat, 1)
       THEN rep \o SubSeq(s, Len(pat) + 1, Len(s))
       ELSE <<s[1]>> \o ReplaceFirst(Tail(s), pat, rep)

\* the reduce over ['pascal', 'camel', 'kebab', 'snake'] of copyDirectory and
\* renameComponent, from case k on: one replaceAll after the other
RewriteCases == <<"pascal", "camel", "kebab", "snake">>

RECURSIVE ReduceVariants(_, _, _, _)
ReduceVariants(acc, k, oldName, newName) ==
  IF k > Len(RewriteCases) THEN acc
  ELSE LET sourceVariant == transform(oldName, RewriteCases[k])
           targetVariant == transform(newName, RewriteCases[k])
       IN ReduceVariants(IF sourceVariant # Null /\ targetVariant # Null
                         THEN ReplaceAll(acc, sourceVariant, targetVariant)
                         ELSE acc,
                         k + 1, oldName, newName)

processedContent(content, oldName, newName) == ReduceVariants(content, 1, oldName, newName)

FileNode(content) == [dir |-> FALSE, content |-> content]

DirNode == [dir |-> TRUE, content |-> <<>>]

IsPrefix(p, q) == Len(p) <= Len(q) /\ SubSeq(q, 1, Len(p)) = p

\* fs.readdir: the names of the entries of the directory at path p
Entries(t, p) == {q[Len(q)] : q \in {r \in DOMAIN t : Len(r) = Len(p) + 1 /\ IsPrefix(p, r)}}

IsDir(t, p) == p \in DOMAIN t /\ t[p].dir

IsFile(t, p) == p \in DOMAIN t /\ ~t[p].dir

\* the tree with one more node
Put(t, p, node) == [q \in DOMAIN t \cup {p} |-> IF q = p THEN node ELSE t[q]]

\* whether fs.rename(from, to) can succeed: a file replaces a file, a
\* directory replaces an empty directory, and anything moves to a free path
CanRename(t, from, to) ==
  /\ from \in DOMAIN t
  /\ to \in DOMAIN t /\ to # from =>
       /\ t[from].dir = t[to].dir
       /\ t[to].dir => Entries(t, to) = {}

\* the tree after fs.rename(from, to) has succeeded
Renamed(t, from, to) ==
  IF from = to THEN t
  ELSE LET moved == {q \in DOMAIN t : IsPrefix(from, q)}
           NewPath(q) == to \o SubSeq(q, Len(from) + 1, Len(q))
           kept == {q \in DOMAIN t : ~IsPrefix(from, q) /\ ~IsPrefix(to, q)}
       IN [q \in kept \cup {NewPath(r) : r \in moved} |->
             IF q \in kept THEN t[q]
             ELSE t[CHOOSE r \in moved : NewPath(r) = q]]

\* an entry of the log of file and editor operations
Issued(op, path, ok) == [op |-> op, path |-> path, ok |-> ok]

\* the error thrown by a failing operation, and the errors the code throws
IoError(op) == [text |-> "I/O error", arg |-> <<op>>]

\* the error of an operation that cannot succeed on the tree as it is (EEXIST,
\* EISDIR, ENOTDIR, ENOTEMPTY)
SystemError(code, op) == [text |-> code, arg |-> <<op>>]

AlreadyExists(name) == [text |-> "Component '%s' already exists", arg |-> name]

InvalidFormat == [text |-> "Invalid component name format", arg |-> <<>>]

ShowError(prefix, error) == [severity |-> "error", prefix |-> prefix, message |-> error]

ShowInformation(text, from, to) ==
  [severity |-> "info", prefix |-> "", message |-> [text |-> text, arg |-> <<from, to>>]]

SameNameError ==
  ShowError("", [text |-> "New component name must be different from the original name.", arg |-> <<>>])

\* mutant of Caught: the catch block shows nothing
CaughtSilently(error) ==
  /\ treePc' = "done"
  /\ frames' = <<>>
  /\ UNCHANGED shown

\* the catch block of forkComponentCommand and of renameCommand
Caught(error) ==
  /\ treePc' = "done"
  /\ frames' = <<>>
  /\ shown' = Append(shown, ShowError(IF treeCmd = "forkComponentCommand"
                                      THEN "Error forking component: "
                                      ELSE "Error renaming component: ", error))

\* an operation that does not change the tree: it resolves or throws
Probe(op, path, ok) ==
  /\ fsLog' = Append(fsLog, Issued(op, path, ok))
  /\ UNCHANGED tree

\* ---- forkComponentCommand ----

Top == frames[Len(frames)]

\* the frame of the running copyDirectory call with other entries left to do
WithTodo(todo) == [frames EXCEPT ![Len(frames)].todo = todo]

\* await showInputBox(...) returns in forkComponentCommand: a dismissed box
\* returns silently, the name of the source is refused with an error message
ForkInput(answer) ==
  /\ treeCmd = "forkComponentCommand"
  /\ treePc = "start"
  /\ targetName' = answer
  /\ IF answer = Null
     THEN treePc' = "done" /\ UNCHANGED shown
     ELSE IF answer = sourceName
          THEN treePc' = "done" /\ shown' = Append(shown, SameNameError)
          ELSE treePc' = "access" /\ UNCHANGED shown
  /\ UNCHANGED <<treeCmd, sourceName, tree, treeAtStart, frames, fsLog, writes,
                 wsCount, scanned, workspaceEdit, applied>>

\* mutant of AccessResolves: fs.access never finds anything
AccessNeverResolves(path) == FALSE

\* fs.access(path) resolves when a file or a directory is at the path
AccessResolves(path) == path \in DOMAIN tree

\* forkComponent: await fs.access(targetPath) resolves when something is at
\* the path, and then the function throws; it rejects with ENOENT when nothing
\* is there, and only then copyDirectory is called; any other rejection is
\* thrown on
AccessTarget(code) ==
  /\ treeCmd = "forkComponentCommand"
  /\ treePc = "access"
  /\ LET targetPath == <<targetName>>
     IN IF AccessResolves(targetPath)
        THEN /\ Probe("access", targetPath, TRUE)
             /\ Caught(AlreadyExists(targetName))
        ELSE /\ Probe("access", targetPath, FALSE)
             /\ IF code = "ENOENT"
                THEN /\ treePc' = "mkdir"
                     /\ frames' = <<[source |-> <<sourceName>>, target |-> targetPath, todo |-> {}]>>
                     /\ UNCHANGED shown
                ELSE Caught(IoError("access"))
  /\ UNCHANGED <<treeCmd, sourceName, targetName, treeAtStart, writes,
                 wsCount, scanned, workspaceEdit, applied>>

\* copyDirectory: await fs.mkdir(targetPath, {recursive: true}); it cannot
\* succeed where a file is
CopyMkdir(ok) ==
  /\ treePc = "mkdir"
  /\ ok => ~IsFile(tree, Top.target)
  /\ fsLog' = Append(fsLog, Issued("mkdir", Top.target, ok))
  /\ IF ok
     THEN /\ tree' = Put(tree, Top.target, DirNode)
          /\ treePc' = "readdir"
          /\ UNCHANGED <<frames, shown>>
     ELSE /\ Caught(IF IsFile(tree, Top.target) THEN SystemError("EEXIST", "mkdir")
                     ELSE IoError("mkdir"))
          /\ UNCHANGED tree
  /\ UNCHANGED <<treeCmd, sourceName, targetName, treeAtStart, writes,
                 wsCount, scanned, workspaceEdit, applied>>

\* copyDirectory: const files = await fs.readdir(sourcePath)
CopyReaddir(ok) ==
  /\ treePc = "readdir"
  /\ Probe("readdir", Top.source, ok)
  /\ IF ok
     THEN /\ frames' = WithTodo(Entries(tree, Top.source))
          /\ treePc' = "loop"
          /\ UNCHANGED shown
     ELSE Caught(IoError("readdir"))
  /\ UNCHANGED <<treeCmd, sourceName, targetName, treeAtStart, writes,
                 wsCount, scanned, workspaceEdit, applied>>

\* mutant of targetFilePath: the copy is put beside its source
targetFilePathInSource(file) == Top.source \o <<ReplaceFirst(file, sourceName, targetName)>>

\* copyDirectory: path.join(targetPath, file.replace(sourceName, targetName))
targetFilePath(file) == Top.target \o <<ReplaceFirst(file, sourceName, targetName)>>

\* copyDirectory: one turn of the for-loop, for the entry file; fs.readdir
\* promises no order, so any entry left may be the next.  A directory starts a
\* nested copyDirectory; a file is read, rewritten and written under the name
\* file.replace(sourceName, targetName).
CopyEntry(file, fate) ==
  /\ treeCmd = "forkComponentCommand"
  /\ treePc = "loop"
  /\ file \in Top.todo
  /\ LET sourceFilePath == Top.source \o <<file>>
         content == tree[sourceFilePath].content
         stat == Issued("stat", sourceFilePath, TRUE)
         read == Issued("readFile", sourceFilePath, TRUE)
     IN IF fate = "statFails"
        THEN /\ Probe("stat", sourceFilePath, FALSE)
             /\ Caught(IoError("stat"))
             /\ UNCHANGED writes
        ELSE IF IsDir(tree, sourceFilePath)
        THEN /\ fate = "ok"
             /\ Probe("stat", sourceFilePath, TRUE)
             /\ frames' = Append(WithTodo(Top.todo \ {file}),
                                 [source |-> sourceFilePath, target |-> targetFilePath(file), todo |-> {}])
             /\ treePc' = "mkdir"
             /\ UNCHANGED <<shown, writes>>
        ELSE IF fate = "readFails"
        THEN /\ fsLog' = fsLog \o <<stat, Issued("readFile", sourceFilePath, FALSE)>>
             /\ Caught(IoError("readFile"))
             /\ UNCHANGED <<tree, writes>>
        ELSE IF fate = "writeFails"
        THEN /\ fsLog' = fsLog \o <<stat, read, Issued("writeFile", targetFilePath(file), FALSE)>>
             /\ Caught(IF IsDir(tree, targetFilePath(file)) THEN SystemError("EISDIR", "writeFile")
                       ELSE IoError("writeFile"))
             /\ UNCHANGED <<tree, writes>>
        ELSE /\ ~IsDir(tree, targetFilePath(file))
             /\ fsLog' = fsLog \o <<stat, read, Issued("writeFile", targetFilePath(file), TRUE)>>
             /\ tree' = Put(tree, targetFilePath(file),
                            FileNode(processedContent(content, sourceName, targetName)))
             /\ writes' = Append(writes, [path |-> targetFilePath(file), from |-> sourceFilePath,
                                          original |-> content,
                                          content |-> processedContent(content, sourceName, targetName)])
             /\ frames' = WithTodo(Top.todo \ {file})
             /\ UNCHANGED <<treePc, shown>>
  /\ UNCHANGED <<treeCmd, sourceName, targetName, treeAtStart,
                 wsCount, scanned, workspaceEdit, applied>>

\* copyDirectory returns when its loop is over; when the outermost call has
\* returned, forkComponentCommand shows the success message
CopyReturn ==
  /\ treeCmd = "forkComponentCommand"
  /\ treePc = "loop"
  /\ Top.todo = {}
  /\ frames' = SubSeq(frames, 1, Len(frames) - 1)
  /\ IF Len(frames) = 1
     THEN /\ treePc' = "done"
          /\ shown' = Append(shown, ShowInformation("Successfully forked component '%s' to '%s'",
                                                    sourceName, targetName))
     ELSE UNCHANGED <<treePc, shown>>
  /\ UNCHANGED <<treeCmd, sourceName, targetName, tree, treeAtStart, fsLog, writes,
                 wsCount, scanned, workspaceEdit, applied>>

\* ---- renameCommand ----

\* await showInputBox(...) returns in renameCommand: a dismissed box and the
\* current name both return silently
RenameInput(answer) ==
  /\ treeCmd = "renameCommand"
  /\ treePc = "start"
  /\ targetName' = answer
  /\ treePc' = IF answer = Null \/ answer = sourceName THEN "done" ELSE "renameDirectory"
  /\ UNCHANGED <<treeCmd, sourceName, tree, treeAtStart, frames, fsLog, shown, writes,
                 wsCount, scanned, workspaceEdit, applied>>

\* renameComponent step 1: await fs.rename(oldPath, newPath)
RenameTopDirectory(ok) ==
  /\ treePc = "renameDirectory"
  /\ LET oldPath == <<sourceName>>
         newPath == <<targetName>>
     IN /\ ok => CanRename(tree, oldPath, newPath)
        /\ fsLog' = Append(fsLog, Issued("rename", oldPath, ok))
        /\ IF ok
           THEN /\ tree' = Renamed(tree, oldPath, newPath)
                /\ treePc' = "listForRename"
                /\ UNCHANGED <<frames, shown>>
           ELSE /\ Caught(IF CanRename(tree, oldPath, newPath) THEN IoError("rename")
                           ELSE SystemError("ENOTEMPTY", "rename"))
                /\ UNCHANGED tree
  /\ UNCHANGED <<treeCmd, sourceName, targetName, treeAtStart, writes,
                 wsCount, scanned, workspaceEdit, applied>>

\* renameComponent step 2 or step 3 begins: await fs.readdir(newPath)
ListEntries(at, next, ok) ==
  /\ treePc = at
  /\ Probe("readdir", <<targetName>>, ok)
  /\ IF ok
     THEN /\ frames' = <<[source |-> <<targetName>>, target |-> <<targetName>>,
                          todo |-> Entries(tree, <<targetName>>)]>>
          /\ treePc' = next
          /\ UNCHANGED shown
     ELSE Caught(IoError("readdir"))
  /\ UNCHANGED <<treeCmd, sourceName, targetName, treeAtStart, writes,
                 wsCount, scanned, workspaceEdit, applied>>

ListForRename(ok) == ListEntries("listForRename", "renameFiles", ok)

\* renameComponent step 2, one turn of the loop: the entry file of the
\* directory is renamed to file.replace(oldName, newName)
RenameEntry(file, ok) ==
  /\ treePc = "renameFiles"
  /\ file \in Top.todo
  /\ LET oldFilePath == Top.source \o <<file>>
         newFileName == ReplaceFirst(file, sourceName, targetName)
         newFilePath == Top.source \o <<newFileName>>
     IN /\ ok => CanRename(tree, oldFilePath, newFilePath)
        /\ fsLog' = Append(fsLog, Issued("rename", oldFilePath, ok))
        /\ IF ok
           THEN /\ tree' = Renamed(tree, oldFilePath, newFilePath)
                /\ frames' = WithTodo(Top.todo \ {file})
                /\ UNCHANGED <<treePc, shown>>
           ELSE /\ Caught(IF CanRename(tree, oldFilePath, newFilePath) THEN IoError("rename")
                           ELSE SystemError("ENOTEMPTY", "rename"))
                /\ UNCHANGED tree
  /\ UNCHANGED <<treeCmd, sourceName, targetName, treeAtStart, writes,
                 wsCount, scanned, workspaceEdit, applied>>

\* the loop of step 2 is over: const newFiles = await fs.readdir(newPath)
ListForRewrite(ok) ==
  /\ treePc = "renameFiles"
  /\ Top.todo = {}
  /\ ListEntries("renameFiles", "rewrite", ok)

\* renameComponent step 3, one turn of the loop: the entry is read, rewritten
\* and written back; fs.readFile of a directory rejects
RewriteEntry(file, fate) ==
  /\ treePc = "rewrite"
  /\ file \in Top.todo
  /\ LET filePath == Top.source \o <<file>>
         content == tree[filePath].content
         read == Issued("readFile", filePath, TRUE)
     IN IF fate = "readFails" \/ IsDir(tree, filePath)
        THEN /\ fate = "readFails"
             /\ Probe("readFile", filePath, FALSE)
             /\ Caught(IF IsDir(tree, filePath) THEN SystemError("EISDIR", "readFile")
                       ELSE IoError("readFile"))
             /\ UNCHANGED writes
        ELSE IF fate = "writeFails"
        THEN /\ fsLog' = fsLog \o <<read, Issued("writeFile", filePath, FALSE)>>
             /\ Caught(IoError("writeFile"))
             /\ UNCHANGED <<tree, writes>>
        ELSE /\ fsLog' = fsLog \o <<read, Issued("writeFile", filePath, TRUE)>>
             /\ tree' = Put(tree, filePath,
                            FileNode(processedContent(content, sourceName, targetName)))
             /\ writes' = Append(writes, [path |-> filePath, from |-> filePath,
                                          original |-> content,
                                          content |-> processedContent(content, sourceName, targetName)])
             /\ frames' = WithTodo(Top.todo \ {file})
             /\ UNCHANGED <<treePc, shown>>
  /\ UNCHANGED <<treeCmd, sourceName, targetName, treeAtStart,
                 wsCount, scanned, workspaceEdit, applied>>

\* updateImportReferences begins: await findFiles(...) returns n files, then
\* the function throws unless the case of both names is detected
FindFiles(n, ok) ==
  /\ treePc = "rewrite"
  /\ Top.todo = {}
  /\ Probe("findFiles", <<>>, ok)
  /\ IF ~ok THEN Caught(IoError("findFiles")) /\ UNCHANGED wsCount
     ELSE IF detectCase(sourceName) = "none" \/ detectCase(targetName) = "none"
     THEN Caught(InvalidFormat) /\ UNCHANGED wsCount
     ELSE /\ wsCount' = n
          /\ treePc' = "scan"
          /\ frames' = <<>>
          /\ UNCHANGED shown
  /\ UNCHANGED <<treeCmd, sourceName, targetName, treeAtStart, writes,
                 scanned, workspaceEdit, applied>>

\* what a workspace file can be for the scan: it does not open; it has no
\* import of the component; it has one, and the rename provider returns an
\* edit or returns undefined
FileKinds == {"unopenable", "plain", "import", "importNoProvider"}

PathEdit(k) == [file |-> k, what |-> "importPath"]

SymbolEdit(k) == [file |-> k, what |-> "symbol"]

\* updateImportReferences, one turn of the loop over the files
ScanFile(kind) ==
  /\ treePc = "scan"
  /\ Len(scanned) < wsCount
  /\ scanned' = Append(scanned, kind)
  /\ LET k == Len(scanned) + 1
     IN /\ fsLog' = fsLog \o
             (<<Issued("openTextDocument", <<>>, kind # "unopenable")>> \o
              (IF kind \in {"import", "importNoProvider"}
               THEN <<Issued("executeDocumentRenameProvider", <<>>, TRUE)>>
               ELSE <<>>))
        /\ workspaceEdit' = workspaceEdit \o
             (CASE kind = "import" -> <<PathEdit(k), SymbolEdit(k)>>
                [] kind = "importNoProvider" -> <<PathEdit(k)>>
                [] OTHER -> <<>>)
        /\ IF kind = "unopenable" THEN Caught(IoError("openTextDocument"))
           ELSE UNCHANGED <<treePc, frames, shown>>
  /\ UNCHANGED <<treeCmd, sourceName, targetName, tree, treeAtStart, writes, wsCount, applied>>

\* mutant of LoopOver: applyEdit is reached from inside the loop
LoopLeftEarly == TRUE

\* the for-loop of updateImportReferences has taken every file
LoopOver == Len(scanned) = wsCount

\* the loop over the files is over: await applyEdit(workspaceEdit) resolves to
\* true or false, which the code does not look at, or rejects; then
\* renameCommand shows the success message
ApplyEdit(result) ==
  /\ treePc = "scan"
  /\ LoopOver
  /\ Probe("applyEdit", <<>>, result # "rejects")
  /\ applied' = Append(applied, workspaceEdit)
  /\ IF result = "rejects"
     THEN Caught(IoError("applyEdit"))
     ELSE /\ treePc' = "done"
          /\ shown' = Append(shown, ShowInformation("Successfully renamed component from %s to %s",
                                                    sourceName, targetName))
          /\ UNCHANGED frames
  /\ UNCHANGED <<treeCmd, sourceName, targetName, treeAtStart, writes,
                 wsCount, scanned, workspaceEdit>>

\* ---- the specification of fork and rename ----

\* the most entries the component directory has at the start
MaxEntries == 2

\* the most files findFiles returns
MaxWorkspaceFiles == 2

\* the names of the right-clicked component directory: one word, two words,
\* and a name of no detectable case
TreeComponentNames == { <<"A","b">>, <<"a","B">>, <<"A","-","b">> }

\* the names the input box accepts (validateInput: validateComponentName)
TreeTypedNames == { <<"C","d">>, <<"A","b","c">>, <<"A","b">> }

\* the entries a component directory is made of: files named after the
\* component in several cases or after something else, and subdirectories
EntryCandidates ==
  { [name |-> <<"A","b",".","t","s">>, dir |-> FALSE, content |-> <<"a","b"," ","A","b">>, inside |-> {}],
    [name |-> <<"a","b",".","t","s">>, dir |-> FALSE, content |-> <<"a","-","b"," ","a","B">>, inside |-> {}],
    [name |-> <<"a","B",".","t","s">>, dir |-> FALSE, content |-> <<"A","B"," ","a","_","b">>, inside |-> {}],
    [name |-> <<"A","b">>, dir |-> TRUE, content |-> <<>>,
     inside |-> {[name |-> <<"A","b",".","t","s">>, content |-> <<"A","b">>]}] }

\* what is beside the component directory under the name Cd at the start
Siblings ==
  { {},
    {[path |-> <<<<"C","d">>>>, node |-> FileNode(<<"x">>)]},
    {[path |-> <<<<"C","d">>>>, node |-> DirNode]} }

\* the tree that holds the component directory name with the chosen entries
BuildTree(name, chosen, beside) ==
  LET nodes == {[path |-> <<name>>, node |-> DirNode]}
               \cup {[path |-> <<name, e.name>>,
                      node |-> IF e.dir THEN DirNode ELSE FileNode(e.content)] : e \in chosen}
               \cup UNION {{[path |-> <<name, e.name, c.name>>, node |-> FileNode(c.content)] :
                            c \in e.inside} : e \in chosen}
               \cup beside
  IN [p \in {n.path : n \in nodes} |-> (CHOOSE n \in nodes : n.path = p).node]

TreeInit ==
  /\ treeCmd \in {"forkComponentCommand", "renameCommand"}
  /\ sourceName \in TreeComponentNames
  /\ targetName = Unasked
  /\ \E chosen \in SUBSET EntryCandidates, beside \in Siblings :
       /\ Cardinality(chosen) <= MaxEntries
       /\ tree = BuildTree(sourceName, chosen, beside)
  /\ treeAtStart = tree
  /\ treePc = "start"
  /\ frames = <<>>
  /\ fsLog = <<>>
  /\ shown = <<>>
  /\ writes = <<>>
  /\ wsCount = 0
  /\ scanned = <<>>
  /\ workspaceEdit = <<>>
  /\ applied = <<>>

TreeNext ==
  \/ (\E answer \in TreeTypedNames \cup {Null} : ForkInput(answer) /\ UNCHANGED <<genVars, tokVars, cfgVars, caseVars, cmdVars>>)
  \/ (\E code \in {"ENOENT", "EACCES"} : AccessTarget(code) /\ UNCHANGED <<genVars, tokVars, cfgVars, caseVars, cmdVars>>)
  \/ (\E ok \in BOOLEAN : CopyMkdir(ok) /\ UNCHANGED <<genVars, tokVars, cfgVars, caseVars, cmdVars>>)
  \/ (\E ok \in BOOLEAN : CopyReaddir(ok) /\ UNCHANGED <<genVars, tokVars, cfgVars, caseVars, cmdVars>>)
  \/ (\E file \in {e.name : e \in EntryCandidates} \cup {c.name : c \in UNION {e.inside : e \in EntryCandidates}},
         fate \in {"ok", "statFails", "readFails", "writeFails"} :
        CopyEntry(file, fate) /\ UNCHANGED <<genVars, tokVars, cfgVars, caseVars, cmdVars>>)
  \/ (CopyReturn /\ UNCHANGED <<genVars, tokVars, cfgVars, caseVars, cmdVars>>)
  \/ (\E answer \in TreeTypedNames \cup {Null} : RenameInput(answer) /\ UNCHANGED <<genVars, tokVars, cfgVars, caseVars, cmdVars>>)
  \/ (\E ok \in BOOLEAN : RenameTopDirectory(ok) /\ UNCHANGED <<genVars, tokVars, cfgVars, caseVars, cmdVars>>)
  \/ (\E ok \in BOOLEAN : ListForRename(ok) /\ UNCHANGED <<genVars, tokVars, cfgVars, caseVars, cmdVars>>)
  \/ (\E file \in Entries(tree, <<targetName>>), ok \in BOOLEAN :
        RenameEntry(file, ok) /\ UNCHANGED <<genVars, tokVars, cfgVars, caseVars, cmdVars>>)
  \/ (\E ok \in BOOLEAN : ListForRewrite(ok) /\ UNCHANGED <<genVars, tokVars, cfgVars, caseVars, cmdVars>>)
  \/ (\E file \in Entries(tree, <<targetName>>), fate \in {"ok", "readFails", "writeFails"} :
        RewriteEntry(file, fate) /\ UNCHANGED <<genVars, tokVars, cfgVars, caseVars, cmdVars>>)
  \/ (\E n \in 0..MaxWorkspaceFiles, ok \in BOOLEAN :
        FindFiles(n, ok) /\ UNCHANGED <<genVars, tokVars, cfgVars, caseVars, cmdVars>>)
  \/ (\E kind \in FileKinds : ScanFile(kind) /\ UNCHANGED <<genVars, tokVars, cfgVars, caseVars, cmdVars>>)
  \/ (\E result \in {"true", "false", "rejects"} :
        ApplyEdit(result) /\ UNCHANGED <<genVars, tokVars, cfgVars, caseVars, cmdVars>>)

InitTree == GenIdle /\ TokIdle /\ CfgIdle /\ CaseIdle /\ CmdIdle /\ TreeInit

SpecTree == InitTree /\ [][TreeNext]_vars

----------------------------------------------------------------------------
(* Properties of generation *)

AllRegistered == \A i \in Renders : HasTemplateItem(templateSources[i])

\* the renders of the running call have been started
Called == run >= 1 /\ AllRegistered /\ detectCase(componentName) # "none"

RangeOf(s) == {s[i] : i \in DOMAIN s}

\* the processed targets of the renders from k on that completed operation op
RECURSIVE PathsOf(_, _)
PathsOf(k, op) ==
  IF k > Len(templateSources) THEN <<>>
  ELSE (IF op \in touched[k] THEN <<ProcessedTarget(k)>> ELSE <<>>) \o PathsOf(k + 1, op)

\* C1: a render whose target file existed when generateFromTemplates was called
\* resolves to exists=true, success=false, has read no template, created no
\* directory and written nothing, and the file has the content it had.
C1_ExistingFileSkipped ==
  Called =>
    \A i \in Renders :
      TargetPath(i) \in DOMAIN filesAtCall =>
        /\ pc[i] \in {"access", "done"}
        /\ pc[i] = "done" =>
             results[i] = [success |-> FALSE, path |-> ProcessedTarget(i), exists |-> TRUE]
        /\ touched[i] \subseteq {"found"}
        /\ TargetPath(i) \in DOMAIN files
        /\ files[TargetPath(i)] = filesAtCall[TargetPath(i)]

C1_Witness ==
  /\ Called
  /\ \E i \in Renders :
       /\ TargetPath(i) \in DOMAIN filesAtCall
       /\ pc[i] = "done"
       /\ results[i].exists

\* C2 as stated: in one batch no path is written twice and no write goes to a
\* path at which a file exists, whatever the selected descriptors.
C2_Original ==
  Called => /\ \A p \in DOMAIN writeLog : writeLog[p] <= 1
            /\ overwrote = {}

DistinctTargets == \A i, j \in Renders : i # j => TargetPath(i) # TargetPath(j)

\* C2 amended: when the selected descriptors compute pairwise distinct target
\* paths, no path is written twice and no write goes to a path at which a file
\* exists, in every interleaving of the renders.
C2_DistinctTargets ==
  (Called /\ DistinctTargets) =>
     /\ \A p \in DOMAIN writeLog : writeLog[p] <= 1
     /\ overwrote = {}

C2_Witness ==
  /\ Called /\ DistinctTargets
  /\ run = 1
  /\ \E i, j \in Renders :
       /\ i # j
       /\ "write" \in touched[i]
       /\ "write" \in touched[j]

\* every selected descriptor is reported in existingFiles
AllReportedExisting ==
  \A i \in Renders : ProcessedTarget(i) \in RangeOf(genResult.existingFiles)

FirstRunComplete ==
  /\ firstRun.outcome = "resolved"
  /\ \A i \in Renders : firstRun.results[i].success \/ firstRun.results[i].exists

C4_ResultPartition ==
  (Called /\ outcome = "resolved") =>
     /\ genResult.success <=> (\E i \in Renders : "write" \in touched[i])
     /\ genResult.success <=> (DOMAIN writeLog # {})
     /\ genResult.addedFiles = PathsOf(1, "write")
     /\ genResult.existingFiles = PathsOf(1, "found")

C4_Witness ==
  /\ Called /\ outcome = "resolved"
  /\ genResult.addedFiles # <<>>
  /\ genResult.existingFiles # <<>>

\* what C5 says of a failed render apart from the result lists: it resolved to
\* success=false, exists=false, nothing was thrown, the call does not reject and
\* resolves only when every render has finished
FailureContained(i) ==
  /\ pc[i] = "done"
  /\ results[i] = [success |-> FALSE, path |-> ProcessedTarget(i), exists |-> FALSE]
  /\ \A j \in Renders : pc[j] # "thrown"
  /\ outcome # "rejected"
  /\ outcome = "resolved" =>
       \A j \in Renders : touched[j] \cap {"write", "found", "failed"} # {}

\* C5 as stated: a failed render is contained and its path is in neither list.
C5_Original ==
  Called =>
    \A i \in Renders :
      "failed" \in touched[i] =>
        /\ FailureContained(i)
        /\ outcome = "resolved" =>
             /\ ProcessedTarget(i) \notin RangeOf(genResult.addedFiles)
             /\ ProcessedTarget(i) \notin RangeOf(genResult.existingFiles)

\* C5 amended: a failed render is contained, and its path is in addedFiles or
\* existingFiles only when another descriptor of the batch computes the same
\* target path and wrote it or found it existing.
C5_FailureIsolated ==
  Called =>
    \A i \in Renders :
      "failed" \in touched[i] =>
        /\ FailureContained(i)
        /\ outcome = "resolved" =>
             /\ ProcessedTarget(i) \in RangeOf(genResult.addedFiles) =>
                  \E j \in Renders \ {i} :
                    TargetPath(j) = TargetPath(i) /\ "write" \in touched[j]
             /\ ProcessedTarget(i) \in RangeOf(genResult.existingFiles) =>
                  \E j \in Renders \ {i} :
                    TargetPath(j) = TargetPath(i) /\ "found" \in touched[j]

C5_Witness ==
  /\ Called /\ outcome = "resolved"
  /\ \E i, j \in Renders :
       /\ "failed" \in touched[i]
       /\ "write" \in touched[j]
       /\ TargetPath(i) # TargetPath(j)

\* C6 as stated: with a name whose case is not detected the call rejects and
\* creates and writes nothing, whatever the selection.
C6_Original ==
  (run >= 1 /\ detectCase(componentName) = "none" /\ outcome \in {"resolved", "rejected"}) =>
     /\ outcome = "rejected"
     /\ files = filesAtCall
     /\ dirs = dirsAtCall

\* C6 amended: with a name whose case is not detected the call creates and
\* writes nothing, and it rejects when at least one template is selected.
C6_InvalidNameTouchesNothing ==
  (run >= 1 /\ detectCase(componentName) = "none") =>
     /\ files = filesAtCall
     /\ dirs = dirsAtCall
     /\ \A i \in Renders : touched[i] = {} /\ pc[i] \in {"thrown", "notcalled"}
     /\ (outcome \in {"resolved", "rejected"} /\ templateSources # <<>>) =>
          outcome = "rejected"

C6_Witness ==
  /\ run = 1
  /\ detectCase(componentName) = "none"
  /\ AllRegistered
  /\ templateSources # <<>>
  /\ outcome = "rejected"

----------------------------------------------------------------------------
(* Specification of token substitution: processTokens applied to one input *)

\* the most pieces an input is made of
MaxPieces == 3

\* the pieces of the inputs: the four tokens, plain text, an unregistered
\* token, and the two halves of a camel token
TokPieces ==
  { TOKEN_TRANSFORMS[1].token, TOKEN_TRANSFORMS[2].token, TOKEN_TRANSFORMS[3].token,
    TOKEN_TRANSFORMS[4].token,
    <<"H","e","l","l","o"," ">>, <<".","t","x","t">>, <<"{","{","C","O","M","P","O","N","E","N","T","_","N","A","M","E","}","}">>, <<"{","{","c","a","m","e","l","C","a","s","e">>, <<"N","a","m","e","}","}">> }

TokNames == { <<"m","y","T","h","i","n","g">>, <<"C","o","m","p","o","n","e","n","t">>, <<"m","y","_","t","h","i","n","g">>, <<"M","y","-","C","o","m","p","o","n","e","n","t">> }

ApplyProcessTokens ==
  /\ ~tokDone
  /\ tokOutput' = processTokens(tokInput, tokName)
  /\ tokDone' = TRUE
  /\ UNCHANGED <<tokInput, tokName>>

TokInit ==
  /\ tokName \in TokNames
  /\ \E pieces \in SeqsUpTo(TokPieces, MaxPieces) : tokInput = JoinWords(pieces, <<>>)
  /\ tokOutput = <<>>
  /\ tokDone = FALSE

TokNext == ApplyProcessTokens /\ UNCHANGED <<genVars, cfgVars, caseVars, cmdVars, treeVars>>

InitTok == GenIdle /\ TokInit /\ CfgIdle /\ CaseIdle /\ CmdIdle /\ TreeIdle

SpecTok == InitTok /\ [][TokNext]_vars

----------------------------------------------------------------------------
(* Properties of token substitution *)

\* the token of TOKEN_TRANSFORMS that s starts with, 0 if there is none
TokenAtHead(s) ==
  IF \E k \in DOMAIN TOKEN_TRANSFORMS : OccursAt(s, TOKEN_TRANSFORMS[k].token, 1)
  THEN CHOOSE k \in DOMAIN TOKEN_TRANSFORMS : OccursAt(s, TOKEN_TRANSFORMS[k].token, 1)
  ELSE 0

\* s with every occurrence of a token replaced by the name in the token's case
\* and every other character kept
RECURSIVE Substituted(_, _)
Substituted(s, name) ==
  IF s = <<>> THEN <<>>
  ELSE IF TokenAtHead(s) # 0
       THEN transform(name, TOKEN_TRANSFORMS[TokenAtHead(s)].targetCase)
            \o Substituted(SubSeq(s, Len(TOKEN_TRANSFORMS[TokenAtHead(s)].token) + 1, Len(s)),
                           name)
       ELSE <<s[1]>> \o Substituted(Tail(s), name)

\* C7: for a name of a detected case, processTokens returns its input with
\* every occurrence of each of the four tokens replaced by the name transformed
\* to the token's case, and all other text unchanged.
C7_Original ==
  (tokDone /\ detectCase(tokName) # "none") => tokOutput = Substituted(tokInput, tokName)

\* the README scenario of C7: the pascal target and the camel content of myThing
C7_Scenario ==
  /\ processTokens(TOKEN_TRANSFORMS[1].token \o <<".","t","x","t">>, <<"m","y","T","h","i","n","g">>) = <<"M","y","T","h","i","n","g",".","t","x","t">>
  /\ processTokens(<<"H","e","l","l","o"," ">> \o TOKEN_TRANSFORMS[4].token, <<"m","y","T","h","i","n","g">>) = <<"H","e","l","l","o"," ","m","y","T","h","i","n","g">>

----------------------------------------------------------------------------
(* Properties of the case engine *)

\* the cases whose pattern the name matches
MatchingCases(name) == {c \in CaseTypes : Matches(c, name)}

\* the case of S that comes first in order
FirstIn(order, S) ==
  order[CHOOSE k \in DOMAIN order :
          /\ order[k] \in S
          /\ \A j \in 1..(k-1) : order[j] \notin S]

\* one word of lowercase letters and digits, a letter first
OneWordLower(name) ==
  /\ name # <<>>
  /\ IsLower(name[1])
  /\ \A i \in DOMAIN name : IsLower(name[i]) \/ IsDigit(name[i])

\* C14 as stated: among the patterns a name matches detectCase picks by the
\* order pascal, camel, kebab, snake; a one-word lowercase name is camel.
C14_Original ==
  casePc = "inspected" =>
    /\ MatchingCases(caseName) # {} =>
         caseDetected = FirstIn(<<"pascal", "camel", "kebab", "snake">>, MatchingCases(caseName))
    /\ OneWordLower(caseName) => caseDetected = "camel"

\* C14 amended: among the patterns a name matches detectCase picks by the
\* order pascal, kebab, camel, snake; a one-word lowercase name, which matches
\* the camel, kebab and snake patterns, is detected as kebab.
C14_KebabBeforeCamel ==
  casePc = "inspected" =>
    /\ MatchingCases(caseName) = {} <=> caseDetected = "none"
    /\ MatchingCases(caseName) # {} =>
         caseDetected = FirstIn(<<"pascal", "kebab", "camel", "snake">>, MatchingCases(caseName))
    /\ OneWordLower(caseName) =>
         /\ MatchingCases(caseName) = {"camel", "kebab", "snake"}
         /\ caseDetected = "kebab"

C14_Witness ==
  /\ casePc = "inspected"
  /\ caseName = <<"b","u","t","t","o","n">>
  /\ caseDetected = "kebab"

CharsOf(name) == {name[i] : i \in DOMAIN name}

\* the shapes C15 lists: mixed separators, a leading digit, a leading
\* separator, a space or a dot, the empty string
ShapeToReject(name) ==
  \/ name = <<>>
  \/ {"-", "_"} \subseteq CharsOf(name)
  \/ name # <<>> /\ (IsDigit(name[1]) \/ name[1] \in {"-", "_"})
  \/ CharsOf(name) \cap {" ", "."} # {}

\* C15: detectCase returns null exactly when isValidCase is false, when
\* transform returns null for every case, when every entry of
\* getAllCaseVariants is null and when validateComponentName returns a message;
\* for a detected name getAllCaseVariants agrees with transform; names of the
\* listed shapes are rejected.
C15_UniformFailure ==
  casePc = "inspected" =>
    /\ (caseDetected = "none") <=> ~caseValid
    /\ (caseDetected = "none") <=> (\A c \in CaseTypes : caseTransforms[c] = Null)
    /\ (caseDetected = "none") <=> (\A c \in CaseTypes : caseVariants[c] = Null)
    /\ (caseDetected = "none") <=> caseNameError
    /\ caseDetected # "none" => \A c \in CaseTypes : caseVariants[c] = caseTransforms[c]
    /\ ShapeToReject(caseName) => caseDetected = "none"

C15_Witness ==
  /\ casePc = "inspected"
  /\ caseName = <<"a","-","b","_","c">>
  /\ caseNameError
  /\ \A c \in CaseTypes : caseVariants[c] = Null

\* C16 as stated: what transform returns for a valid name, converted to case B,
\* is detected as case B.
C16_Original ==
  \A k \in DOMAIN caseChain :
    (k >= 2 /\ caseChain[k].output # Null) => caseChain[k].detected = caseChain[k].targetCase

\* C16 amended: what transform returns for a valid name, converted to case B,
\* matches the pattern of case B, and is detected as case B unless it is one
\* lowercase word and B is camel or snake: then it is detected as kebab.
C16_DetectedAsTarget ==
  \A k \in DOMAIN caseChain :
    k >= 2 =>
      /\ caseChain[k].output # Null
      /\ Matches(caseChain[k].targetCase, caseChain[k].output)
      /\ IF OneWordLower(caseChain[k].output) /\ caseChain[k].targetCase \in {"camel", "snake"}
         THEN caseChain[k].detected = "kebab"
         ELSE caseChain[k].detected = caseChain[k].targetCase

C16_Witness ==
  /\ Len(caseChain) >= 2
  /\ caseName = <<"u","s","e","r","P","r","o","f","i","l","e","C","a","r","d">>
  /\ caseChain[1].targetCase = "kebab"
  /\ caseChain[2].targetCase = "snake"
  /\ caseChain[2].detected = "snake"

\* C17 as stated: converting a converted name to another case and back to the
\* first case gives the converted name again.
C17_Original ==
  \A k \in DOMAIN caseChain :
    (k >= 3 /\ caseChain[k].targetCase = caseChain[k-2].targetCase) =>
      caseChain[k].output = caseChain[k-2].output

\* C18 as stated: Button2 becomes Button2 in pascal, button2 in camel and
\* button-2 in kebab.
C18_Original ==
  (casePc = "inspected" /\ caseName = <<"B","u","t","t","o","n","2">>) =>
    /\ caseTransforms["pascal"] = <<"B","u","t","t","o","n","2">>
    /\ caseTransforms["camel"] = <<"b","u","t","t","o","n","2">>
    /\ caseTransforms["kebab"] = <<"b","u","t","t","o","n","-","2">>

----------------------------------------------------------------------------
(* Properties of findConfig *)

NotFoundShown == \E k \in DOMAIN messages : messages[k].kind = "notFound"

\* the configuration file of dir is read but does not parse or does not validate
Broken(dir) ==
  /\ Readable(dir)
  /\ Parses(dir) => ~validateFullConfig(configFiles[dir].config, dir).isValid

\* C8: the directories are probed from startPath upwards, a probe follows only
\* probes that found nothing readable, and a returned configuration is that of
\* the nearest directory, among startPath and its ancestors, with a readable
\* configuration file.
C8_NearestWins ==
  /\ \A k \in DOMAIN probes : probes[k] = SubSeq(startPath, 1, Len(startPath) - (k - 1))
  /\ \A k \in DOMAIN probes : k < Len(probes) => ~Readable(probes[k])
  /\ cfgPc = "done" => \A k \in DOMAIN probes : k < Len(probes) => ~Readable(probes[k])
  /\ cfgResult.kind = "config" =>
       /\ cfgPc = "done"
       /\ probes # <<>>
       /\ cfgResult.configDir = probes[Len(probes)]
       /\ Readable(cfgResult.configDir)
       /\ cfgResult.config = configFiles[cfgResult.configDir].config
       /\ \A d \in Ancestors(startPath) :
            Len(d) > Len(cfgResult.configDir) => ~Readable(d)

C8_Witness ==
  /\ cfgResult.kind = "config"
  /\ Len(probes) >= 2
  /\ \E d \in Ancestors(startPath) :
       /\ Len(d) < Len(cfgResult.configDir)
       /\ Len(d) >= 1
       /\ Readable(d)

\* C9 as stated: null with the "no configuration anywhere" message is returned
\* exactly when no directory from startPath up to and including the root holds
\* a configuration file that can be read, and never after a parse or validation
\* failure.
C9_Original ==
  cfgPc = "done" =>
    /\ (cfgResult = NoConfig /\ NotFoundShown)
         <=> (\A d \in Ancestors(startPath) : ~Readable(d))
    /\ (\E k \in DOMAIN messages : messages[k].kind \in {"parse", "validation"})
         => ~NotFoundShown

\* C10: when the configuration file that is read does not parse or does not
\* validate, the error is shown, null is returned and no parent is probed.
C10_FailFast ==
  \A k \in DOMAIN probes :
    Broken(probes[k]) =>
      /\ k = Len(probes)
      /\ cfgPc = "done"
      /\ cfgResult = NoConfig
      /\ currentPath = probes[k]
      /\ messages = <<[kind |-> IF Parses(probes[k]) THEN "validation" ELSE "parse",
                       dir |-> probes[k]]>>

C10_Witness ==
  /\ cfgPc = "done"
  /\ cfgResult = NoConfig
  /\ probes # <<>>
  /\ Broken(probes[Len(probes)])
  /\ \E d \in Ancestors(startPath) :
       /\ Len(d) < Len(probes[Len(probes)])
       /\ Len(d) >= 1
       /\ Parses(d)
       /\ validateFullConfig(configFiles[d].config, d).isValid

\* the sources that the templates array of c registers
Registered(c) == {c.templates.items[k].source : k \in DOMAIN c.templates.items}

HasSeparator(name) == \E i \in DOMAIN name : name[i] \in {"/", "\\"}

\* a group with a non-empty string label and an array of registered sources
WellFormedGroup(group, c) ==
  /\ group.label.type = "string"
  /\ group.label.value # <<>>
  /\ group.templates.type = "array"
  /\ \A k \in DOMAIN group.templates.items : group.templates.items[k] \in Registered(c)

\* the fields of c other than the references are as the rules require
WellFormedFields(c) ==
  /\ c.templatesDirectory.type = "string"
  /\ c.templatesDirectory.value # <<>>
  /\ ~HasSeparator(c.templatesDirectory.value)
  /\ \/ c.directoryCase.type = "undefined"
     \/ /\ c.directoryCase.type = "string"
        /\ c.directoryCase.value \in {"pascal", "camel", "kebab", "snake"}
  /\ c.templates.type = "array"
  /\ c.defaultTemplateGroup.type = "array"

\* C11: a configuration that findConfig returns is valid in every respect: the
\* templates directory is a non-empty name without separators, directoryCase is
\* absent or one of the four cases, templates and defaultTemplateGroup are
\* arrays, every reference of the default group and of every alternate group is
\* registered, every alternate group has a label and an array of templates, and
\* every template file was found in the templates directory.
C11_NeverPartiallyValid ==
  cfgResult.kind = "config" =>
    LET c == cfgResult.config.fields IN
    /\ cfgResult.config.type = "object"
    /\ WellFormedFields(c)
    /\ \A k \in DOMAIN c.defaultTemplateGroup.items :
         c.defaultTemplateGroup.items[k] \in Registered(c)
    /\ c.alternateTemplateGroups.type = "array" =>
         \A k \in DOMAIN c.alternateTemplateGroups.items :
           WellFormedGroup(c.alternateTemplateGroups.items[k], c)
    /\ \A src \in Registered(c) :
         [dir |-> JoinSegment(cfgResult.configDir, c.templatesDirectory.value),
          source |-> src] \in templateFiles
    /\ validationResult = [isValid |-> TRUE, errors |-> <<>>]

C11_Witness ==
  /\ cfgResult.kind = "config"
  /\ cfgResult.config = GroupedConfig
  /\ cfgResult.configDir = startPath

\* the references of c, in the default group and in the groups, that are not
\* registered
UnresolvedReferences(c) ==
  ({c.defaultTemplateGroup.items[k] : k \in DOMAIN c.defaultTemplateGroup.items}
     \cup UNION {{c.alternateTemplateGroups.items[g].templates.items[k] :
                    k \in DOMAIN c.alternateTemplateGroups.items[g].templates.items} :
                  g \in DOMAIN c.alternateTemplateGroups.items})
    \ Registered(c)

\* nothing but its references can be wrong with c, and its groups are an array
ReferencesCheckable(c) ==
  /\ WellFormedFields(c)
  /\ c.alternateTemplateGroups.type = "array"
  /\ \A g \in DOMAIN c.alternateTemplateGroups.items :
       /\ c.alternateTemplateGroups.items[g].label.type = "string"
       /\ c.alternateTemplateGroups.items[g].label.value # <<>>
       /\ c.alternateTemplateGroups.items[g].templates.type = "array"

\* C12 as stated: when the validated configuration has unresolved template
\* references, the collected errors hold one entry for each of them, naming it.
C12_Original ==
  (cfgPc = "done" /\ probes # <<>> /\ Parses(probes[Len(probes)])
     /\ configFiles[probes[Len(probes)]].config.type = "object"
     /\ ReferencesCheckable(configFiles[probes[Len(probes)]].config.fields)) =>
    \A ref \in UnresolvedReferences(configFiles[probes[Len(probes)]].config.fields) :
      \E k \in DOMAIN validationResult.errors :
        /\ validationResult.errors[k].kind \in {"defaultReference", "groupReference"}
        /\ validationResult.errors[k].source = ref

\* C13 as stated: the templates directory of a returned configuration is a
\* direct child of the directory of the configuration file.
C13_Original ==
  cfgResult.kind = "config" =>
    LET templatesPath == JoinSegment(cfgResult.configDir,
                                     cfgResult.config.fields.templatesDirectory.value)
    IN /\ templatesPath # <<>>
       /\ Dirname(templatesPath) = cfgResult.configDir

----------------------------------------------------------------------------
(* Properties of the commands *)

\* no file operation was issued by the command or by a generation batch
NothingIssued ==
  /\ run = 0
  /\ touched = <<>>
  /\ \A k \in DOMAIN cmdLog : cmdLog[k].kind # "mutation"

\* the command found no configuration, or a prompt was dismissed, or the name
\* entered for a rename is the current one
EndsBeforeMutation ==
  \/ cmdConfig = NoConfig
  \/ cmdAnswer = Null
  \/ cmdEnd = "cancelled"
  \/ cmd = "renameCommand" /\ cmdAnswer = cmdBase

\* C19: in every command every prompt precedes the first file operation, the
\* operations of a generation batch follow the call that the command logs, and
\* a command that finds no configuration, or whose prompt is dismissed, or a
\* rename to the current name, has returned without any file operation.
C19_PromptsBeforeMutations ==
  /\ \A i, j \in DOMAIN cmdLog :
       (i < j /\ cmdLog[i].kind = "mutation") => cmdLog[j].kind # "prompt"
  /\ run >= 1 => \E k \in DOMAIN cmdLog : cmdLog[k] = Mutation("generateFromTemplates")
  /\ EndsBeforeMutation => (cmdPc = "done" /\ NothingIssued)

C19_Witness ==
  /\ cmd = "renameCommand"
  /\ cmdAnswer = cmdBase
  /\ cmdPc = "done"
  /\ cmdLog = <<Prompt("showInputBox")>>

IsNotification(entry) == entry.kind = "notify"

Notifications == SelectSeq(cmdLog, IsNotification)

\* C20 as stated, a dismissed prompt and a rename to the current name taken as
\* no terminal state of an operation: a command that has returned has shown
\* exactly one notification; after a generation batch it is info only if files
\* were added and none skipped or failed, warning if files were skipped, error
\* if none could be written; it is error after a failure and info after a
\* successful rename or fork.
C20_Original ==
  (cmdPc = "done" /\ cmdEnd \notin {"cancelled", "sameName"}) =>
    /\ Len(Notifications) = 1
    /\ (cmdEnd = "reported" /\ outcome = "resolved") =>
         /\ Notifications[1].what = "info" =>
              /\ genResult.addedFiles # <<>>
              /\ genResult.existingFiles = <<>>
              /\ \A i \in Renders : "failed" \notin touched[i]
         /\ genResult.existingFiles # <<>> => Notifications[1].what = "warning"
         /\ (genResult.addedFiles = <<>> /\ genResult.existingFiles = <<>>) =>
              Notifications[1].what = "error"
    /\ cmdEnd \in {"noUri", "noConfig", "refused", "failed"} => Notifications[1].what = "error"
    /\ cmdEnd = "succeeded" => Notifications[1].what = "info"

\* the directoryCase of the configuration the command found, "none" if not set
DirectoryCaseOf(found) ==
  IF found.kind = "config" /\ found.config.fields.directoryCase.type = "string"
  THEN found.config.fields.directoryCase.value
  ELSE "none"

\* C25 as stated: when the configuration sets directoryCase, the component
\* directory that a create command makes is the target directory joined with
\* the component name transformed to that case.
C25_Original ==
  (cmd \in {"createWithDefaultFiles", "createAltComponent"} /\ DirectoryCaseOf(cmdConfig) # "none") =>
    \A i \in DOMAIN touched :
      "mkdir" \in touched[i] =>
        ComponentDir(i) = PathJoin(TargetDirectory, transform(componentName, DirectoryCaseOf(cmdConfig)))

----------------------------------------------------------------------------
(* Properties of fork and rename *)

\* the operations of the log that change the file system
Changing == {"mkdir", "writeFile", "rename"}

NoChangeIssued == \A i \in DOMAIN fsLog : fsLog[i].op \notin Changing

Forking == treeCmd = "forkComponentCommand"

Renaming == treeCmd = "renameCommand"

\* the input box returned a name other than the current one
Answered == targetName \notin {Unasked, Null, sourceName}

\* C21: forkComponentCommand, given the name of the source, shows the error
\* about the name and issues no file operation; given a name at which a file or
\* a directory exists beside the source, it shows one error whose message is
\* "Component '<targetName>' already exists", issues no mkdir and no writeFile
\* and leaves the tree as it was; and every mkdir comes after the fs.access of
\* the target path.
C21_ForkPreValidation ==
  Forking =>
    /\ targetName = sourceName => (treePc = "done" /\ shown = <<SameNameError>> /\ fsLog = <<>>)
    /\ (Answered /\ <<targetName>> \in DOMAIN treeAtStart /\ treePc # "access") =>
         /\ treePc = "done"
         /\ Len(shown) = 1
         /\ shown[1].severity = "error"
         /\ shown[1].message = AlreadyExists(targetName)
         /\ NoChangeIssued
         /\ tree = treeAtStart
    /\ \A i \in DOMAIN fsLog :
         fsLog[i].op = "mkdir" =>
           \E j \in 1..(i - 1) : fsLog[j] = Issued("access", <<targetName>>, FALSE)

C21_Witness ==
  /\ Forking
  /\ Answered
  /\ IsDir(treeAtStart, <<targetName>>)
  /\ treePc = "done"
  /\ shown = <<ShowError("Error forking component: ", AlreadyExists(targetName))>>

\* the cases whose variant of the name old occurs at the head of s
VariantsAtHead(s, old) ==
  {c \in CaseTypes : transform(old, c) # Null /\ OccursAt(s, transform(old, c), 1)}

\* the contents that s can become when every occurrence of a case variant of
\* old, found from left to right, is replaced by the variant of new in the same
\* case (in any of the cases, when the variants of old coincide)
RECURSIVE Substitutions(_, _, _)
Substitutions(s, old, new) ==
  IF s = <<>> THEN {<<>>}
  ELSE IF VariantsAtHead(s, old) = {}
       THEN {<<s[1]>> \o rest : rest \in Substitutions(Tail(s), old, new)}
       ELSE UNION {{transform(new, c) \o rest :
                      rest \in Substitutions(SubSeq(s, Len(transform(old, c)) + 1, Len(s)), old, new)} :
                   c \in VariantsAtHead(s, old)}

\* C22 as stated: for valid old and new names, the content that fork or rename
\* writes for a file is the content it read with every occurrence of each case
\* variant of the old name replaced by the same-case variant of the new name.
C22_Original ==
  (isValidCase(sourceName) /\ Answered) =>
    \A k \in DOMAIN writes :
      writes[k].content \in Substitutions(writes[k].original, sourceName, targetName)

\* the variants of a name in the four cases
VariantsOf(name) == {transform(name, c) : c \in CaseTypes} \ {Null}

\* no variant of the new name contains a variant of the old name
Unrelated(old, new) ==
  \A v \in VariantsOf(old), w \in VariantsOf(new) : ~Includes(w, v)

ForkSucceeded ==
  /\ Forking
  /\ treePc = "done"
  /\ shown # <<>>
  /\ shown[Len(shown)].severity = "info"

\* the paths of the tree t at or below the path root
Below(t, root) == {p \in DOMAIN t : IsPrefix(root, p)}

\* C23 as stated, for a valid source name and a target name none of whose
\* variants contains a variant of the source name: after a successful fork no
\* entry name below the target directory and no file content in it contains a
\* case variant of the source name.
C23_Original ==
  (ForkSucceeded /\ isValidCase(sourceName) /\ Unrelated(sourceName, targetName)) =>
    \A p \in Below(tree, <<targetName>>), v \in VariantsOf(sourceName) :
      /\ \A k \in 2..Len(p) : ~Includes(p[k], v)
      /\ ~Includes(tree[p].content, v)

\* the path in the target tree that copyDirectory gives the source path p
CopyOf(p) ==
  <<targetName>> \o [k \in 1..(Len(p) - 1) |-> ReplaceFirst(p[k + 1], sourceName, targetName)]

FilesIn(t, d) == {e \in Entries(t, d) : IsFile(t, d \o <<e>>)}

DirsIn(t, d) == {e \in Entries(t, d) : IsDir(t, d \o <<e>>)}

\* C24 as stated: after a successful fork every directory of the source tree
\* has its copy in the target tree, with as many files and as many
\* subdirectories as the source directory has.
C24_Original ==
  ForkSucceeded =>
    \A d \in Below(treeAtStart, <<sourceName>>) :
      IsDir(treeAtStart, d) =>
        /\ IsDir(tree, CopyOf(d))
        /\ Cardinality(FilesIn(tree, CopyOf(d))) = Cardinality(FilesIn(treeAtStart, d))
        /\ Cardinality(DirsIn(tree, CopyOf(d))) = Cardinality(DirsIn(treeAtStart, d))

\* no operation failed that could have succeeded on the tree as it was
NoFault == \A k \in DOMAIN shown : shown[k].message.text # "I/O error"

RenameEnded == Renaming /\ Answered /\ treePc = "done"

Written(p) == \E k \in DOMAIN writes : writes[k].path = p

\* C26 as stated, for a valid current name, a new name free beside the
\* component, and an environment in which no operation fails that could
\* succeed: renameCommand ends with the success notification after one
\* applyEdit, and every file of the component tree has been rewritten.
C26_Original ==
  (RenameEnded /\ isValidCase(sourceName) /\ <<targetName>> \notin DOMAIN treeAtStart /\ NoFault) =>
    /\ Len(shown) = 1
    /\ shown[1].severity = "info"
    /\ Len(applied) = 1
    /\ \A p \in Below(tree, <<targetName>>) : IsFile(tree, p) => Written(p)

\* the step of the rename pipeline that an entry of the log belongs to:
\* 1 the directory, 2 the files in it, 3 their contents, 4 the imports
StepOf(entry) ==
  CASE entry.op = "rename" /\ Len(entry.path) = 1 -> 1
    [] entry.op = "rename" -> 2
    [] entry.op \in {"readFile", "writeFile"} -> 3
    [] entry.op \in {"findFiles", "openTextDocument", "executeDocumentRenameProvider", "applyEdit"} -> 4
    [] OTHER -> 0

\* the edits that the scan of the files taken so far puts into workspaceEdit
RECURSIVE EditsFrom(_, _)
EditsFrom(kinds, k) ==
  IF k > Len(kinds) THEN <<>>
  ELSE (CASE kinds[k] = "import" -> <<PathEdit(k), SymbolEdit(k)>>
          [] kinds[k] = "importNoProvider" -> <<PathEdit(k)>>
          [] OTHER -> <<>>) \o EditsFrom(kinds, k + 1)

CountOf(op) == Cardinality({i \in DOMAIN fsLog : fsLog[i].op = op})

RenameSucceeded ==
  /\ Renaming
  /\ treePc = "done"
  /\ shown # <<>>
  /\ shown[Len(shown)].severity = "info"

\* C27: renameCommand issues the directory rename first and once, then the
\* renames of the entries, then the reads and writes of the contents, then the
\* operations of the import update; applyEdit is called at most once, only when
\* every file that findFiles returned has been scanned, with the edits of all
\* scanned files in one WorkspaceEdit; and the success notification is shown
\* only after that call, as the last thing.
C27_PipelineOrder ==
  Renaming =>
    /\ \A i, j \in DOMAIN fsLog :
         (i < j /\ StepOf(fsLog[i]) # 0 /\ StepOf(fsLog[j]) # 0) => StepOf(fsLog[i]) <= StepOf(fsLog[j])
    /\ \A i \in DOMAIN fsLog : StepOf(fsLog[i]) = 1 => i = 1
    /\ Len(applied) = CountOf("applyEdit")
    /\ Len(applied) <= 1
    /\ applied # <<>> =>
         /\ fsLog[Len(fsLog)].op = "applyEdit"
         /\ Len(scanned) = wsCount
         /\ CountOf("openTextDocument") = wsCount
         /\ applied[1] = EditsFrom(scanned, 1)
    /\ (\E k \in DOMAIN shown : shown[k].severity = "info") =>
         /\ Len(shown) = 1
         /\ Len(applied) = 1
         /\ fsLog[Len(fsLog)] = Issued("applyEdit", <<>>, TRUE)

C27_Witness ==
  /\ RenameSucceeded
  /\ writes # <<>>
  /\ wsCount = MaxWorkspaceFiles
  /\ Len(applied) = 1
  /\ \E e, f \in Range(applied[1]) : e.file # f.file

\* an operation of the log that threw (a rejected fs.access is the expected
\* outcome in forkComponent and is caught there)
Threw(entry) == ~entry.ok /\ entry.op # "access"

\* the error notification of the catch block of the running command
IsCatchNotification(n) ==
  /\ n.severity = "error"
  /\ n.prefix = (IF Forking THEN "Error forking component: " ELSE "Error renaming component: ")

\* the completed operations on the file system are still in effect
NothingRolledBack ==
  /\ \A i \in DOMAIN fsLog :
       /\ (fsLog[i].op = "mkdir" /\ fsLog[i].ok) => IsDir(tree, fsLog[i].path)
       /\ (fsLog[i].op = "writeFile" /\ fsLog[i].ok) => IsFile(tree, fsLog[i].path)
  /\ (Renaming /\ fsLog # <<>> /\ fsLog[1].ok) =>
       (<<sourceName>> \notin DOMAIN tree /\ IsDir(tree, <<targetName>>))

\* C28: in fork and rename an operation that throws is the last operation
\* issued, the command has then returned with exactly one notification, the
\* error message of its catch block, and what the completed operations did to
\* the file system is still in effect; the same holds when the code itself
\* throws (target exists, invalid name format).
C28_FailureAborts ==
  /\ \A i \in DOMAIN fsLog :
       Threw(fsLog[i]) => (i = Len(fsLog) /\ treePc = "done")
  /\ ((\E i \in DOMAIN fsLog : Threw(fsLog[i])) \/ (\E k \in DOMAIN shown : shown[k].prefix # "")) =>
       /\ treePc = "done"
       /\ Len(shown) = 1
       /\ IsCatchNotification(shown[1])
  /\ NothingRolledBack

C28_Witness ==
  /\ treePc = "done"
  /\ Len(shown) = 1
  /\ IsCatchNotification(shown[1])
  /\ Threw(fsLog[Len(fsLog)])
  /\ \E i \in DOMAIN fsLog : fsLog[i].op \in Changing /\ fsLog[i].ok
  /\ tree # treeAtStart

\* C29 as stated: when a workspace file does not open during
\* updateImportReferences, the loop goes on to the other files and the edits
\* found in them are applied by the one applyEdit call.
C29_Original ==
  (Renaming /\ treePc = "done" /\ (\E k \in DOMAIN scanned : scanned[k] = "unopenable")) =>
    /\ Len(scanned) = wsCount
    /\ Len(applied) = 1
    /\ applied[1] = EditsFrom(scanned, 1)

\* C30: in every run of forkComponentCommand every node of the source
\* component is as it was at the start and nothing was added to it, no rename
\* is issued, and every mkdir and writeFile is issued for a path at or below
\* <parent>/<targetName>.
C30_SourceUntouched ==
  Forking =>
    /\ Below(tree, <<sourceName>>) = Below(treeAtStart, <<sourceName>>)
    /\ \A p \in Below(treeAtStart, <<sourceName>>) : tree[p] = treeAtStart[p]
    /\ \A i \in DOMAIN fsLog :
         /\ fsLog[i].op # "rename"
         /\ fsLog[i].op \in {"mkdir", "writeFile"} =>
              (IsPrefix(<<targetName>>, fsLog[i].path) /\ ~IsPrefix(<<sourceName>>, fsLog[i].path))

C30_Witness ==
  /\ Forking
  /\ treePc = "done"
  /\ writes # <<>>
  /\ \E i \in DOMAIN fsLog : fsLog[i] = Issued("mkdir", <<targetName>>, TRUE)
  /\ \E k \in DOMAIN writes : writes[k].content # writes[k].original

====
